---- MODULE Spec2Model ----
(***************************************************************************)
(* Document-AI-Hub: the answering pipeline (retrieval, citation            *)
(* validation, acceptance policy, confidence scoring) and the chat store   *)
(* (sessions, messages, their encryption and the endpoints over them).     *)
(*                                                                         *)
(* Texts are TLA+ strings, i.e. sequences of characters: Len, SubSeq and   *)
(* \o act on them character by character, so the regular expressions and   *)
(* the str methods of the Python code are modelled on the characters.      *)
(*                                                                         *)
(* Numbers: a similarity score or a distance is an integer number of       *)
(* 1/10000 (the code rounds scores to 4 decimals); a citation coverage     *)
(* rounded to 2 decimals is an integer number of 1/100; a confidence       *)
(* score before rounding is an exact fraction num/den, after rounding an   *)
(* integer number of 1/10.                                                 *)
(***************************************************************************)
EXTENDS Integers, Sequences, FiniteSets, TLC

VARIABLES
    chroma,     \* Chroma collections: collection name -> set of stored chunks
    weaviate,   \* Weaviate classes: class name -> set of stored objects
    index_query, \* the query the last operation sent to a vector store, or NoQuery
    llm_calls,  \* number of language-model invocations made by the last operation
    op,         \* the operation that ran last ("idle" between requests)
    args,       \* its inputs
    ret,        \* its result
    chat_sessions, \* table chat_sessions: the set of stored rows
    chat_messages, \* table chat_messages: the set of stored rows
    db_clock,   \* the database's source of row ids and of now()
    documents_table, \* table documents: the set of stored rows
    disk_files, \* the paths of the files saved on disk
    upload_tasks \* the background tasks scheduled by uploads, run or not

chat == <<chat_sessions, chat_messages, db_clock>>

uploads == <<documents_table, disk_files, upload_tasks>>

vars == <<chroma, weaviate, index_query, llm_calls, op, args, ret, chat, uploads>>

----------------------------------------------------------------------------
(* Characters and the str methods used by the code                         *)

UpperChars == "ABCDEFGHIJKLMNOPQRSTUVWXYZ"
LowerChars == "abcdefghijklmnopqrstuvwxyz"
DigitChars == "0123456789"

At(s, i) == SubSeq(s, i, i)

UpperSet == {At(UpperChars, i) : i \in 1..Len(UpperChars)}
LowerSet == {At(LowerChars, i) : i \in 1..Len(LowerChars)}
DigitSet == {At(DigitChars, i) : i \in 1..Len(DigitChars)}
SpaceSet == {" ", "\n", "\t"}

\* str.lower() and str.upper() on one character
LowerOf == [c \in UpperSet |->
              At(LowerChars, CHOOSE i \in 1..Len(UpperChars) : At(UpperChars, i) = c)]
UpperOf == [c \in LowerSet |->
              At(UpperChars, CHOOSE i \in 1..Len(LowerChars) : At(LowerChars, i) = c)]

IsSpace(c) == c \in SpaceSet
IsDigit(c) == c \in DigitSet

LowerChar(c) == IF c \in UpperSet THEN LowerOf[c] ELSE c
UpperChar(c) == IF c \in LowerSet THEN UpperOf[c] ELSE c

\* str.lower(); the string is halved so that the recursion stays shallow
RECURSIVE Lower(_)
Lower(s) ==
    IF Len(s) = 0 THEN ""
    ELSE IF Len(s) = 1 THEN LowerChar(s)
    ELSE Lower(SubSeq(s, 1, Len(s) \div 2)) \o Lower(SubSeq(s, (Len(s) \div 2) + 1, Len(s)))

\* The scans below pick the least index with a property; the second
\* conjunct makes the choice unique.

\* first index >= i that is past the end or holds a non-space character
SkipSpaces(s, i) ==
    IF i > Len(s) THEN i
    ELSE CHOOSE j \in i..(Len(s) + 1) :
            /\ j = Len(s) + 1 \/ ~IsSpace(At(s, j))
            /\ \A k \in i..(j - 1) : IsSpace(At(s, k))

\* first index >= i that is past the end or holds a non-digit character
SkipDigits(s, i) ==
    IF i > Len(s) THEN i
    ELSE CHOOSE j \in i..(Len(s) + 1) :
            /\ j = Len(s) + 1 \/ ~IsDigit(At(s, j))
            /\ \A k \in i..(j - 1) : IsDigit(At(s, k))

\* first index >= i that is past the end or holds a space character
SkipWord(s, i) ==
    IF i > Len(s) THEN i
    ELSE CHOOSE j \in i..(Len(s) + 1) :
            /\ j = Len(s) + 1 \/ IsSpace(At(s, j))
            /\ \A k \in i..(j - 1) : ~IsSpace(At(s, k))

\* last index <= i that is before the start or holds a non-space character
RECURSIVE SkipSpacesBack(_, _)
SkipSpacesBack(s, i) ==
    IF i >= 1 /\ IsSpace(At(s, i)) THEN SkipSpacesBack(s, i - 1) ELSE i

\* str.strip()
Strip(s) == SubSeq(s, SkipSpaces(s, 1), SkipSpacesBack(s, Len(s)))

\* str.startswith(p)
StartsWith(s, p) == Len(p) <= Len(s) /\ SubSeq(s, 1, Len(p)) = p

\* s[i:].startswith(p), i counted from 1
HasAt(s, i, p) == i + Len(p) - 1 <= Len(s) /\ SubSeq(s, i, i + Len(p) - 1) = p

\* p in s
Contains(s, p) == \E i \in 1..(Len(s) + 1) : HasAt(s, i, p)

\* str.split(): the maximal runs of non-space characters, in order
RECURSIVE SplitFrom(_, _)
SplitFrom(s, i) ==
    LET b == SkipSpaces(s, i)
        e == SkipWord(s, b)
    IN  IF b > Len(s) THEN <<>> ELSE <<SubSeq(s, b, e - 1)>> \o SplitFrom(s, e)

\* a long string is first cut at the end of the word in its middle, so that
\* the recursion stays shallow
RECURSIVE Split(_)
Split(s) ==
    LET cut == SkipWord(s, Len(s) \div 2)
    IN  IF Len(s) <= 64 \/ cut > Len(s) THEN SplitFrom(s, 1)
        ELSE Split(SubSeq(s, 1, cut - 1)) \o Split(SubSeq(s, cut, Len(s)))

\* str.isdigit()
IsDigitStr(s) == s # "" /\ \A i \in 1..Len(s) : IsDigit(At(s, i))

Range(f) == {f[i] : i \in DOMAIN f}

RECURSIVE Repeat(_, _)
Repeat(s, n) ==
    IF n = 0 THEN ""
    ELSE LET half == Repeat(s, n \div 2)
         IN  half \o half \o (IF n % 2 = 1 THEN s ELSE "")

RECURSIVE SumSeq(_)
SumSeq(q) == IF q = <<>> THEN 0 ELSE Head(q) + SumSeq(Tail(q))

Min(a, b) == IF a <= b THEN a ELSE b
Max(a, b) == IF a >= b THEN a ELSE b

----------------------------------------------------------------------------
(* Python's round() on an exact fraction n/d, d > 0, n >= 0                *)

\* round-half-to-even of n/d to an integer
RoundHalfEven(n, d) ==
    LET q == n \div d
        r == n % d
    IN  IF 2 * r < d THEN q
        ELSE IF 2 * r > d THEN q + 1
        ELSE IF q % 2 = 0 THEN q ELSE q + 1

\* The valid counts v for which the double nearest to v/40 lies above the
\* decimal tie v/40 = x.xx5, so that round(v/40, 2) rounds up (v/40 is not
\* a binary fraction unless v is a multiple of 5).
Float40Up == {1, 9, 11, 13, 21, 27, 31, 37}
Float40Down == {3, 7, 17, 19, 23, 29, 33, 39}

\* variant: the ratio cut to two decimals instead of rounded
Round2Truncated(v, t) == (100 * v) \div t

\* round(v / t, 2) in hundredths, for 0 <= v <= t, 0 < t < 80
Round2(v, t) ==
    IF t = 40 /\ v \in Float40Up THEN ((100 * v) \div t) + 1
    ELSE IF t = 40 /\ v \in Float40Down THEN (100 * v) \div t
    ELSE RoundHalfEven(100 * v, t)

----------------------------------------------------------------------------
(* app/generation/citation_enforcer.py                                     *)

\* re: (?:Source|Doc|Ref)? under re.IGNORECASE; the length matched at i
CitePrefixLen(s, i) ==
    LET l == Lower(SubSeq(s, i, Min(Len(s), i + 5)))
    IN  IF StartsWith(l, "source") THEN 6
        ELSE IF StartsWith(l, "doc") THEN 3
        ELSE IF StartsWith(l, "ref") THEN 3
        ELSE 0

\* One attempt of  [\(\[]\s*(?:Source|Doc|Ref)?\s*(\d+)\s*[\)\]]  at index i.
\* The pattern has a single way to match from a given index (a prefix starts
\* with a letter, so dropping it leaves no digit; a shorter run of digits or
\* spaces is followed by a digit or a space), so no backtracking is modelled.
CiteMatchAt(s, i) ==
    LET j == SkipSpaces(s, i + 1)
        k == SkipSpaces(s, j + CitePrefixLen(s, j))
        e == SkipDigits(s, k)
        m == SkipSpaces(s, e)
        ok == /\ At(s, i) \in {"(", "["}
              /\ e > k
              /\ m <= Len(s)
              /\ At(s, m) \in {")", "]"}
    IN  IF ok THEN [ok |-> TRUE, group |-> SubSeq(s, k, e - 1), next |-> m + 1]
        ELSE [ok |-> FALSE, group |-> "", next |-> i + 1]

\* first index >= i that is past the end or holds an opening bracket
SkipToOpen(s, i) ==
    IF i > Len(s) THEN i
    ELSE CHOOSE j \in i..(Len(s) + 1) :
            /\ j = Len(s) + 1 \/ At(s, j) \in {"(", "["}
            /\ \A k \in i..(j - 1) : At(s, k) \notin {"(", "["}

\* re.findall(pattern, answer, flags=re.IGNORECASE): group 1 of every
\* non-overlapping match, leftmost first; a match starts at an opening
\* bracket, so the scan goes from one opening bracket to the next
RECURSIVE CiteScan(_, _)
CiteScan(s, from) ==
    LET i == SkipToOpen(s, from)
    IN  IF i > Len(s) THEN <<>>
        ELSE LET m == CiteMatchAt(s, i)
             IN  IF m.ok THEN <<m.group>> \o CiteScan(s, m.next)
                 ELSE CiteScan(s, m.next)

CiteFindAll(s) == CiteScan(s, 1)

\* the lookup set built from the retrieved documents
ValidIds(retrieved_docs) == {Strip(retrieved_docs[i].id) : i \in DOMAIN retrieved_docs}

\* the candidates loop: the number itself, "Source n" or "Doc n" is a known id
CiteMatched(cite_num, valid_ids) ==
    \/ cite_num \in valid_ids
    \/ ("Source " \o cite_num) \in valid_ids
    \/ ("Doc " \o cite_num) \in valid_ids

validate_citations(answer, retrieved_docs) ==
    LET valid_ids == ValidIds(retrieved_docs)
        found_citations == CiteFindAll(answer)
        valid == SelectSeq(found_citations, LAMBDA c : CiteMatched(c, valid_ids))
        invalid == SelectSeq(found_citations, LAMBDA c : ~CiteMatched(c, valid_ids))
        valid_count == Len(valid)
        total_citations == valid_count + Len(invalid)
    IN  [valid_citations   |-> valid_count,
         total_citations   |-> total_citations,
         invalid_citations |-> {"[Source " \o c \o "]" : c \in Range(invalid)},
         coverage          |-> IF total_citations > 0
                               THEN Round2(valid_count, total_citations) ELSE 0]

----------------------------------------------------------------------------
(* app/services/rag_service.py: the acceptance policy                      *)

refusal_phrases ==
    {"i could not find the answer",
     "i cannot find",
     "information is not available",
     "not found in the provided documents"}

RefusalAnswer == "I could not find the answer in the provided documents."

\* answer.lower().strip() starts with one of the refusal phrases
IsRefusalText(answer) ==
    LET ans_lower == Strip(Lower(answer))
    IN  \E phrase \in refusal_phrases : StartsWith(ans_lower, phrase)

\* the decision taken on the validation result (coverage in hundredths)
AcceptancePolicy(is_refusal_text, citation_val, mode) ==
    IF is_refusal_text /\ citation_val.valid_citations = 0 THEN TRUE
    ELSE IF mode = "academic"
         THEN IF citation_val.total_citations = 0 THEN FALSE
              ELSE IF citation_val.coverage < 75 THEN FALSE
              ELSE TRUE
         ELSE IF citation_val.total_citations = 0 THEN FALSE
              ELSE IF citation_val.valid_citations >= 1 THEN TRUE
              ELSE IF citation_val.total_citations > 0 /\ citation_val.valid_citations = 0
                   THEN FALSE
              ELSE TRUE

validate_answer_citations(answer, retrieved_docs, mode) ==
    LET citation_val == validate_citations(answer, retrieved_docs)
    IN  [is_valid     |-> AcceptancePolicy(IsRefusalText(answer), citation_val, mode),
         citation_val |-> citation_val]

----------------------------------------------------------------------------
(* pipeline/query_handler.py: citation validation                          *)

\* first index >= i that is past the end or holds "]"
SkipToBracket(s, i) ==
    IF i > Len(s) THEN i
    ELSE CHOOSE j \in i..(Len(s) + 1) :
            /\ j = Len(s) + 1 \/ At(s, j) = "]"
            /\ \A k \in i..(j - 1) : At(s, k) # "]"

\* One attempt of  \[DOC\s+([^\]]+)\]  at index i (case-sensitive).  \s+ is
\* greedy and gives one space back to the group when nothing else precedes
\* the closing bracket.
DocMatchAt(s, i) ==
    LET j == i + 4
        k == SkipSpaces(s, j)
        e == SkipToBracket(s, j)
        ok == /\ HasAt(s, i, "[DOC")
              /\ k > j
              /\ e <= Len(s)
              /\ e - j >= 2
    IN  IF ok THEN [ok |-> TRUE,
                    group |-> IF k < e THEN SubSeq(s, k, e - 1) ELSE At(s, e - 1),
                    next |-> e + 1]
        ELSE [ok |-> FALSE, group |-> "", next |-> i + 1]

\* first index >= i that is past the end or where "[DOC" starts
SkipToDoc(s, i) ==
    IF i > Len(s) THEN i
    ELSE CHOOSE j \in i..(Len(s) + 1) :
            /\ j = Len(s) + 1 \/ HasAt(s, j, "[DOC")
            /\ \A k \in i..(j - 1) : ~HasAt(s, k, "[DOC")

\* re.findall: the scan goes from one "[DOC" to the next
RECURSIVE DocScan(_, _)
DocScan(s, from) ==
    LET i == SkipToDoc(s, from)
    IN  IF i > Len(s) THEN <<>>
        ELSE LET m == DocMatchAt(s, i)
             IN  IF m.ok THEN <<m.group>> \o DocScan(s, m.next)
                 ELSE DocScan(s, m.next)

DocFindAll(s) == DocScan(s, 1)

\* coverage is the exact fraction valid/total, kept as num/den
QH_validate_citations(answer, retrieved_docs) ==
    LET cited_ids == Range(DocFindAll(answer))
        available_ids == {retrieved_docs[i].id : i \in DOMAIN retrieved_docs}
        valid_count == Cardinality(cited_ids \cap available_ids)
        total_count == Cardinality(cited_ids)
    IN  [valid_citations |-> valid_count,
         total_citations |-> total_count,
         coverage        |-> IF total_count > 0
                             THEN [num |-> valid_count, den |-> total_count]
                             ELSE [num |-> 0, den |-> 1]]

----------------------------------------------------------------------------
(* Exact fractions [num, den], den > 0, for the float arithmetic of the     *)
(* confidence score                                                        *)

RECURSIVE GCD(_, _)
GCD(a, b) == IF b = 0 THEN a ELSE GCD(b, a % b)

Frac(n, d) == LET g == GCD(n, d) IN [num |-> n \div g, den |-> d \div g]

FracLeq(x, y) == x.num * y.den <= y.num * x.den

FracMin(x, y) == IF FracLeq(x, y) THEN x ELSE y

\* round(x, 1) in tenths; an exact tie is rounded half-to-even
Round1(x) == RoundHalfEven(10 * x.num, x.den)

----------------------------------------------------------------------------
(* app/metrics/confidence_calculator.py                                    *)

summary_keywords == {"summarize", "summary", "overview", "brief", "detail"}

IsSummarization(query) ==
    LET q == Lower(query) IN \E w \in summary_keywords : Contains(q, w)

\* set(text.lower().split())
Terms(text) == Range(Split(Lower(text)))

\* mean of the documents' scores, as a fraction of 1
AvgSim(retrieved_docs) ==
    Frac(SumSeq([i \in DOMAIN retrieved_docs |-> retrieved_docs[i].score]),
         10000 * Len(retrieved_docs))

\* variant: the mean similarity whatever the query asks for
RetrievalScoreMeanOnly(query, retrieved_docs) ==
    IF retrieved_docs # <<>>
    THEN LET avg_sim == AvgSim(retrieved_docs)
         IN  FracMin(Frac(100 * avg_sim.num, avg_sim.den), Frac(100, 1))
    ELSE Frac(0, 1)

RetrievalScore(query, retrieved_docs) ==
    IF retrieved_docs # <<>>
    THEN IF IsSummarization(query) THEN Frac(100, 1)
         ELSE LET avg_sim == AvgSim(retrieved_docs)
              IN  FracMin(Frac(100 * avg_sim.num, avg_sim.den), Frac(100, 1))
    ELSE Frac(0, 1)

\* coverage is a fraction of 1
CitationScore(coverage) == Frac(100 * coverage.num, coverage.den)

QueryScore(query, answer, citation_score) ==
    LET query_terms == Terms(query)
        answer_terms == Terms(answer)
    IN  IF IsSummarization(query) THEN citation_score
        ELSE IF query_terms # {}
             THEN Frac(100 * Cardinality(query_terms \cap answer_terms),
                       Cardinality(query_terms))
             ELSE Frac(0, 1)

DepthScore(query, answer) ==
    LET answer_words == Len(Split(answer))
    IN  IF IsSummarization(query)
        THEN FracMin(Frac(answer_words * 100, 100), Frac(100, 1))
        ELSE FracMin(Frac(answer_words * 100, 500), Frac(100, 1))

\* variant: the retrieval factor weighted 0.4, so the weights sum to 1.1
WeightedSumHeavy(r, c, q, d) ==
    Frac(4 * r.num * c.den * q.den * d.den + 3 * c.num * r.den * q.den * d.den
           + 2 * q.num * r.den * c.den * d.den + 2 * d.num * r.den * c.den * q.den,
         10 * r.den * c.den * q.den * d.den)

\* 0.3 * r + 0.3 * c + 0.2 * q + 0.2 * d
WeightedSum(r, c, q, d) ==
    Frac(3 * r.num * c.den * q.den * d.den + 3 * c.num * r.den * q.den * d.den
           + 2 * q.num * r.den * c.den * d.den + 2 * d.num * r.den * c.den * q.den,
         10 * r.den * c.den * q.den * d.den)

Categorize(confidence_score) ==
    IF FracLeq(Frac(75, 1), confidence_score) THEN "High"
    ELSE IF FracLeq(Frac(50, 1), confidence_score) THEN "Medium"
    ELSE "Low"

\* scores are returned rounded to one decimal, in tenths
calculate_confidence(query, retrieved_docs, answer, citation_validation) ==
    LET retrieval_score == RetrievalScore(query, retrieved_docs)
        citation_score == CitationScore(citation_validation.coverage)
        query_score == QueryScore(query, answer, citation_score)
        depth_score == DepthScore(query, answer)
        confidence_score == WeightedSum(retrieval_score, citation_score,
                                        query_score, depth_score)
    IN  [confidence_score    |-> Round1(confidence_score),
         confidence_category |-> Categorize(confidence_score),
         factors |-> [retrieval_quality |-> Round1(retrieval_score),
                      citation_coverage |-> Round1(citation_score),
                      query_coverage    |-> Round1(query_score),
                      answer_depth      |-> Round1(depth_score)]]

\* the coverage of citation_enforcer.validate_citations, in hundredths, as a
\* fraction of 1
CoverageFrac(citation_val) ==
    [citation_val EXCEPT !.coverage = Frac(citation_val.coverage, 100)]

----------------------------------------------------------------------------
(* pipeline/query_handler.py: confidence                                   *)

\* raised: the division by len(set(query.lower().split())) fails when query
\* is a non-empty string of spaces
QH_calculate_confidence(query, retrieved_docs, answer, citation_val) ==
    LET avg_sim == IF retrieved_docs # <<>> THEN AvgSim(retrieved_docs) ELSE Frac(0, 1)
        retrieval_score == FracMin(Frac(100 * avg_sim.num, avg_sim.den), Frac(100, 1))
        citation_score == CitationScore(citation_val.coverage)
        raised == query # "" /\ Terms(query) = {}
        query_score == IF query # "" /\ ~raised
                       THEN Frac(100 * Cardinality(Terms(query) \cap Terms(answer)),
                                 Cardinality(Terms(query)))
                       ELSE Frac(0, 1)
        depth_score == FracMin(Frac(Len(Split(answer)) * 100, 500), Frac(100, 1))
        confidence_score == WeightedSum(retrieval_score, citation_score,
                                        query_score, depth_score)
    IN  IF raised
        THEN [raised |-> TRUE]
        ELSE [raised              |-> FALSE,
              confidence_score    |-> Round1(confidence_score),
              confidence_category |-> Categorize(confidence_score),
                   factors |-> [retrieval      |-> Round1(retrieval_score),
                           citations      |-> Round1(citation_score),
                           query_coverage |-> Round1(query_score),
                           depth          |-> Round1(depth_score)]]

----------------------------------------------------------------------------
(* Bounds and input sets                                                   *)

MaxChunks == 1      \* chunks per indexed document

Users == {"u1", "u2"}
UserRole == [u \in Users |-> IF u = "u1" THEN "student" ELSE "employee"]
FileIds == {"f1", "f2"}
NoFile == ""        \* file_id absent (None and "" are both falsy)
Modes == {"general", "academic", "legal", "Poetry"}
Queries == {"Summarize this", "find the answer"}
TopKs == {1, 6}
Distances == {0, 12000}     \* raw distances of the index, in 1/10000

CollectionNames ==
    {"general_docs", "legal_docs", "medical_docs", "academic_docs",
     "finance_docs", "business_docs"}

ChunkId(file_id, i) == file_id \o "_" \o ToString(i)

----------------------------------------------------------------------------
(* The vector stores (collaborators): equality filters and nearest-first   *)
(* ranking.  The distance of every stored chunk to the query vector is an  *)
(* input (dist); equal distances are ranked by id.                         *)

\* A Python dict is the sequence of its items [key, value], in insertion
\* order: {k: v} is Dict1(k, v), {"$and": [c1, c2]} is Dict1("$and", <<c1, c2>>).
Dict1(k, v) == <<[key |-> k, value |-> v]>>
HasKey(d, k) == \E i \in DOMAIN d : d[i].key = k
Get(d, k) == d[CHOOSE i \in DOMAIN d : d[i].key = k].value

\* Chroma's where semantics: equality on metadata fields, "$and" of clauses
ChromaMatches(where, meta) ==
    LET conds == IF HasKey(where, "$and") THEN Get(where, "$and") ELSE <<where>>
    IN  \A i \in DOMAIN conds : \A j \in DOMAIN conds[i] :
            meta[conds[i][j].key] = conds[i][j].value

\* nearest first; among equal distances the store's own (fixed) order
RECURSIVE Ranked(_, _)
Ranked(objs, dist) ==
    IF objs = {} THEN <<>>
    ELSE LET first == CHOOSE o \in objs : \A p \in objs : dist[o.id] <= dist[p.id]
         IN  <<first>> \o Ranked(objs \ {first}, dist)

FirstN(q, n) == SubSeq(q, 1, Min(n, Len(q)))

\* col.query(query_embeddings, n_results, where, include)
ChromaQuery(col, n_results, where, dist) ==
    LET hits == FirstN(Ranked({c \in col : ChromaMatches(where, c.meta)}, dist), n_results)
    IN  [ids       |-> [i \in DOMAIN hits |-> hits[i].id],
         documents |-> [i \in DOMAIN hits |-> hits[i].text],
         metadatas |-> [i \in DOMAIN hits |-> hits[i].meta],
         distances |-> [i \in DOMAIN hits |-> dist[hits[i].id]]]

----------------------------------------------------------------------------
(* app/services/file_processing_service.py: process_document               *)

CollectionsToIndex(user_role) ==
    {"general_docs"} \cup
    (IF user_role = "lawyer" THEN {"legal_docs"}
     ELSE IF user_role = "doctor" THEN {"medical_docs"}
     ELSE IF user_role \in {"researcher", "student"} THEN {"academic_docs"}
     ELSE IF user_role \in {"banker", "financial_analyst"} THEN {"finance_docs"}
     ELSE IF user_role \in {"employee", "executive"} THEN {"business_docs"}
     ELSE {})

\* the records upserted for a document of n chunks
DocumentChunks(file_id, filename, user_id, n) ==
    {[id   |-> ChunkId(file_id, i),
      text |-> "chunk " \o ToString(i),
      meta |-> [file_id |-> file_id, user_id |-> user_id,
                chunk_num |-> i, filename |-> filename]] : i \in 0..(n - 1)}

\* col.upsert: a record replaces the stored record of the same id
ChromaUpsert(col, records) ==
    {c \in col : \A r \in records : r.id # c.id} \cup records

process_document(store, file_id, filename, user_id, user_role, n) ==
    [name \in CollectionNames |->
        IF n > 0 /\ name \in CollectionsToIndex(user_role)
        THEN ChromaUpsert(store[name], DocumentChunks(file_id, filename, user_id, n))
        ELSE store[name]]

----------------------------------------------------------------------------
(* app/services/rag_service.py: retrieval                                  *)

collection_map(mode) ==
    IF mode = "legal" THEN "legal_docs"
    ELSE IF mode = "healthcare" THEN "medical_docs"
    ELSE IF mode = "academic" THEN "academic_docs"
    ELSE IF mode = "finance" THEN "finance_docs"
    ELSE "general_docs"

\* variant: a file-scoped filter that drops the owner condition
WhereFilterFileOnly(user_id, file_id) ==
    IF file_id # NoFile THEN Dict1("file_id", file_id) ELSE Dict1("user_id", user_id)

WhereFilter(user_id, file_id) ==
    LET base_filter == Dict1("user_id", user_id)
    IN  IF file_id # NoFile
        THEN Dict1("$and", <<base_filter, Dict1("file_id", file_id)>>)
        ELSE base_filter

\* sim_score = max(0, 1.0 - dist)
SimScore(dist) == Max(0, 10000 - dist)

\* results, scores and the query sent to the collection
retrieve_with_scores(store, query, user_id, file_id, mode, top_k, dist) ==
    LET target_collection == collection_map(mode)
        where_filter == WhereFilter(user_id, file_id)
        res == ChromaQuery(store[target_collection], top_k, where_filter, dist)
    IN  [results |-> [i \in DOMAIN res.documents |->
                        [id    |-> res.ids[i],
                         text  |-> res.documents[i],
                         meta  |-> res.metadatas[i],
                         score |-> SimScore(res.distances[i])]],
         scores  |-> [i \in DOMAIN res.documents |-> SimScore(res.distances[i])],
         sent    |-> [store |-> "chroma", collection |-> target_collection,
                      where |-> where_filter, n_results |-> top_k]]

----------------------------------------------------------------------------
(* app/services/rag_service.py: answer_query                               *)

\* the citation the prompt shows as the correct format: [DOC {doc_ids[0]}]
PromptCitation(doc_id) == "[DOC " \o doc_id \o "]"

\* the persona the template of a mode opens with
Persona(mode) ==
    IF mode = "academic" THEN "a rigorous academic researcher"
    ELSE IF mode = "legal" THEN "a legal analysis expert"
    ELSE IF mode = "finance" THEN "a financial analyst"
    ELSE IF mode = "healthcare" THEN "a medical information specialist"
    ELSE IF mode = "business" THEN "a business operations analyst"
    ELSE "a helpful assistant"

\* _build_dynamic_prompt: the persona, the allowed ids and the worked
\* example; the rule texts do not influence the pipeline
build_dynamic_prompt(mode, retrieved_docs) ==
    LET doc_ids == [i \in DOMAIN retrieved_docs |-> retrieved_docs[i].id]
    IN  [persona |-> Persona(mode), allowed |-> doc_ids,
         example |-> PromptCitation(doc_ids[1])]

\* col.query raised (index unreachable, query error, malformed filter):
\* retrieve_with_scores has no handler, the exception leaves it
RetrievalFailure == [raised |-> TRUE, error |-> "col.query"]

\* variant: a failed generation is answered with the refusal
GenerationFailureRefused ==
    [answer |-> RefusalAnswer, retrieved |-> <<>>]

\* chain.ainvoke raised (model error, timeout): answer_query has no handler,
\* the exception leaves it
GenerationFailure == [raised |-> TRUE, error |-> "chain.ainvoke"]

NoDocsResponse ==
    [answer    |-> RefusalAnswer,
     retrieved |-> <<>>,
     metrics   |-> [similarity_score     |-> 0,
                    confidence_category  |-> "Low",
                    confidence_score     |-> 0,
                    hallucination_risk   |-> "Potential"]]

\* variant: the generated text is returned whatever the policy decided
FinishAnswerUnchecked(query, retrieved_docs, scores, llm_text, v) ==
    LET conf == calculate_confidence(query, retrieved_docs, llm_text,
                                     CoverageFrac(v.citation_val))
    IN  [answer    |-> llm_text,
         retrieved |-> retrieved_docs,
         metrics   |-> [similarity_score    |-> RoundHalfEven(1000 * SumSeq(scores),
                                                              10000 * Len(scores)),
                        confidence_category |-> conf.confidence_category,
                        confidence_score    |-> conf.confidence_score,
                        hallucination_risk  |-> IF v.citation_val.coverage > 70
                                                THEN "Low" ELSE "Potential",
                        citation_validation |->
                            [total_citations |-> v.citation_val.total_citations,
                             valid_citations |-> v.citation_val.valid_citations,
                             coverage        |-> v.citation_val.coverage]]]

\* answer_query from the rejection test on: llm_text is the text the
\* language model returned, v the result of validate_answer_citations on it
FinishAnswer(query, retrieved_docs, scores, llm_text, v) ==
    LET answer_text == IF ~v.is_valid THEN RefusalAnswer ELSE llm_text
        citation_val == IF ~v.is_valid
                        THEN [v.citation_val EXCEPT !.coverage = 0]
                        ELSE v.citation_val
        conf == calculate_confidence(query, retrieved_docs, answer_text,
                                     CoverageFrac(citation_val))
    IN  [answer    |-> answer_text,
         retrieved |-> retrieved_docs,
         metrics   |-> [similarity_score    |-> RoundHalfEven(1000 * SumSeq(scores),
                                                              10000 * Len(scores)),
                        confidence_category |-> conf.confidence_category,
                        confidence_score    |-> conf.confidence_score,
                        hallucination_risk  |-> IF citation_val.coverage > 70
                                                THEN "Low" ELSE "Potential",
                        citation_validation |->
                            [total_citations |-> citation_val.total_citations,
                             valid_citations |-> citation_val.valid_citations,
                             coverage        |-> citation_val.coverage]]]

----------------------------------------------------------------------------
(* app/api/vector_db.py: WeaviateAdapter                                   *)

\* str.capitalize()
Capitalize(w) == IF w = "" THEN "" ELSE UpperChar(At(w, 1)) \o Lower(SubSeq(w, 2, Len(w)))

\* first index >= i that is past the end or holds "_"
SkipToUnderscore(s, i) ==
    IF i > Len(s) THEN i
    ELSE CHOOSE j \in i..(Len(s) + 1) :
            /\ j = Len(s) + 1 \/ At(s, j) = "_"
            /\ \A k \in i..(j - 1) : At(s, k) # "_"

\* "".join(word.capitalize() for word in name.split('_'))
RECURSIVE CleanFrom(_, _)
CleanFrom(name, i) ==
    LET e == SkipToUnderscore(name, i)
    IN  Capitalize(SubSeq(name, i, e - 1))
          \o (IF e > Len(name) THEN "" ELSE CleanFrom(name, e + 1))

clean_name(name) == CleanFrom(name, 1)

\* uuid5(NAMESPACE_DNS, unique_str): a fixed injective image of the id
generate_uuid(unique_str) == "uuid5:" \o unique_str

\* upsert of one batch; ids, documents and metadatas are parallel sequences
WeaviateUpsert(store, collection_name, ids, documents, metadatas) ==
    LET class_name == clean_name(collection_name)
        old == IF class_name \in DOMAIN store THEN store[class_name] ELSE {}
        new == {[id    |-> generate_uuid(ids[i]),
                 props |-> [text      |-> documents[i],
                            file_id   |-> metadatas[i].file_id,
                            user_id   |-> metadatas[i].user_id,
                            chunk_num |-> metadatas[i].chunk_num,
                            filename  |-> metadatas[i].filename]] : i \in DOMAIN ids}
    IN  [c \in DOMAIN store \cup {class_name} |->
            IF c = class_name
            THEN {o \in old : \A n \in new : n.id # o.id} \cup new
            ELSE store[c]]

\* the loop over conditions[1:]; an empty condition raises at
\* list(cond.items())[0] and the except clause keeps what was built so far
RECURSIVE AndConditions(_, _, _)
AndConditions(conditions, i, w_filter) ==
    IF i > Len(conditions) \/ conditions[i] = <<>> THEN w_filter
    ELSE AndConditions(conditions, i + 1,
             Append(w_filter, [prop |-> conditions[i][1].key, val |-> conditions[i][1].value]))

\* lines 77-92: the filter as the sequence of AND-ed equality predicates;
\* the empty sequence is None (no filter)
BuildFilter(where) ==
    IF where = <<>> THEN <<>>
    ELSE IF HasKey(where, "$and")
         THEN AndConditions(Get(where, "$and"), 1, <<>>)
         ELSE <<[prop |-> where[1].key, val |-> where[1].value]>>

FilterMatches(w_filter, props) ==
    \A i \in DOMAIN w_filter :
        w_filter[i].prop \in DOMAIN props /\ props[w_filter[i].prop] = w_filter[i].val

\* WeaviateAdapter.query; fails: near_vector raised (class missing, backend
\* error), which the adapter turns into an empty result
WeaviateQuery(store, collection_name, top_k, where, dist, fails) ==
    LET class_name == clean_name(collection_name)
        w_filter == BuildFilter(where)
        objs == IF class_name \in DOMAIN store THEN store[class_name] ELSE {}
        hits == IF fails \/ class_name \notin DOMAIN store THEN <<>>
                ELSE FirstN(Ranked({o \in objs : FilterMatches(w_filter, o.props)}, dist),
                            top_k)
    IN  [ids       |-> [i \in DOMAIN hits |-> hits[i].id],
         documents |-> [i \in DOMAIN hits |-> hits[i].props.text],
         metadatas |-> [i \in DOMAIN hits |->
                          [k \in DOMAIN hits[i].props \ {"text"} |-> hits[i].props[k]]],
         distances |-> [i \in DOMAIN hits |-> dist[hits[i].id]],
         sent      |-> [store |-> "weaviate", collection |-> class_name,
                        where |-> w_filter, n_results |-> top_k]]

----------------------------------------------------------------------------
(* app/api/search.py: search_documents                                     *)

\* score = max(0, 1.0 - dist / 2), rounded to 4 decimals
SearchScore(dist) == RoundHalfEven(Max(0, 20000 - dist), 2)

SearchWhere(user_id, file_id) ==
    IF file_id # NoFile
    THEN Dict1("$and", <<Dict1("user_id", user_id), Dict1("file_id", file_id)>>)
    ELSE Dict1("user_id", user_id)

search_documents(store, top_k, collection_name, file_id, user_id, dist, fails) ==
    LET results == WeaviateQuery(store, collection_name, top_k,
                                 SearchWhere(user_id, file_id), dist, fails)
    IN  [formatted_results |->
            [i \in DOMAIN results.documents |->
                [id       |-> results.ids[i],
                 text     |-> results.documents[i],
                 metadata |-> results.metadatas[i],
                 score    |-> SearchScore(results.distances[i])]],
         sent |-> results.sent]

----------------------------------------------------------------------------
(* pipeline/query_handler.py: retrieval, policy, handle_query              *)

\* str.replace(old, ""), old non-empty
RECURSIVE Remove(_, _)
Remove(s, old) ==
    IF s = "" THEN ""
    ELSE IF StartsWith(s, old) THEN Remove(SubSeq(s, Len(old) + 1, Len(s)), old)
    ELSE At(s, 1) \o Remove(SubSeq(s, 2, Len(s)), old)

RECURSIVE StripCharsLeft(_, _)
StripCharsLeft(s, chars) ==
    IF s # "" /\ At(s, 1) \in chars THEN StripCharsLeft(SubSeq(s, 2, Len(s)), chars) ELSE s

RECURSIVE StripCharsRight(_, _)
StripCharsRight(s, chars) ==
    IF s # "" /\ At(s, Len(s)) \in chars
    THEN StripCharsRight(SubSeq(s, 1, Len(s) - 1), chars) ELSE s

\* str.strip(chars)
StripChars(s, chars) == StripCharsRight(StripCharsLeft(s, chars), chars)

\* the triggers dict, in its order
Triggers ==
    <<[trigger |-> "explain in detail",
       aspects |-> <<"definition", "key concepts", "examples", "process", "components">>],
      [trigger |-> "what is", aspects |-> <<"definition", "characteristics">>],
      [trigger |-> "how does", aspects |-> <<"mechanism", "process", "steps">>]>>

expand_query_for_academic(query) ==
    LET hit == {i \in DOMAIN Triggers : Contains(Lower(query), Lower(Triggers[i].trigger))}
    IN  IF hit = {} THEN <<query>>
        ELSE LET t == Triggers[CHOOSE i \in hit : \A j \in hit : i <= j]
                 topic == StripChars(Remove(query, t.trigger), {"?", ".", " "})
             IN  <<query>> \o [a \in DOMAIN t.aspects |-> t.aspects[a] \o " of " \o topic]

\* the all_results dict after the results of one query: a document replaces
\* the stored one of the same id only with a strictly higher score and keeps
\* its place; a new id is appended
RECURSIVE MergeResults(_, _)
MergeResults(all_results, results) ==
    IF results = <<>> THEN all_results
    ELSE LET doc == Head(results)
             at == {i \in DOMAIN all_results : all_results[i].id = doc.id}
             merged == IF at = {} THEN Append(all_results, doc)
                       ELSE [i \in DOMAIN all_results |->
                               IF i \in at /\ doc.score > all_results[i].score
                               THEN doc ELSE all_results[i]]
         IN  MergeResults(merged, Tail(results))

RECURSIVE MergeAll(_, _)
MergeAll(all_results, per_query) ==
    IF per_query = <<>> THEN all_results
    ELSE MergeAll(MergeResults(all_results, Head(per_query)), Tail(per_query))

\* variant: the merged results are returned in the order they were found
Unsorted(docs) == docs

\* sorted(docs, key=score, reverse=True): stable, highest score first
RECURSIVE SortByScoreDesc(_)
SortByScoreDesc(docs) ==
    IF docs = <<>> THEN <<>>
    ELSE LET m == CHOOSE i \in DOMAIN docs :
                      /\ \A j \in DOMAIN docs : docs[j].score <= docs[i].score
                      /\ \A j \in 1..(i - 1) : docs[j].score < docs[i].score
             rest == [j \in 1..(Len(docs) - 1) |-> IF j < m THEN docs[j] ELSE docs[j + 1]]
         IN  <<docs[m]>> \o SortByScoreDesc(rest)

\* the documents found before they are sorted: all_results.values()
all_results_values(mode, per_query) ==
    IF mode = "academic" THEN MergeAll(<<>>, per_query) ELSE per_query[1]

\* per_query[i] is what retrieval_fn returned for the i-th query issued
retrieve_documents(query, mode, top_k, per_query) ==
    IF mode = "academic"
    THEN FirstN(SortByScoreDesc(MergeAll(<<>>, per_query)), top_k)
    ELSE per_query[1]

\* the number of calls of retrieval_fn
QueriesIssued(query, mode) ==
    IF mode = "academic" THEN Len(expand_query_for_academic(query)) ELSE 1

\* variant: the policy does not look at the retrieved evidence
enforce_mode_policy_any(mode, retrieved) ==
    IF mode \notin {"academic", "general"} THEN [allowed |-> FALSE, reason |-> "Invalid mode."]
    ELSE [allowed |-> TRUE, reason |-> "Evidence available."]

enforce_mode_policy(mode, retrieved) ==
    IF mode \notin {"academic", "general"} THEN [allowed |-> FALSE, reason |-> "Invalid mode."]
    ELSE IF retrieved = <<>>
         THEN [allowed |-> FALSE, reason |-> "No supporting documents found."]
    ELSE [allowed |-> TRUE, reason |-> "Evidence available."]

MaxScore(docs) ==
    IF docs = <<>> THEN 0
    ELSE LET m == CHOOSE i \in DOMAIN docs : \A j \in DOMAIN docs : docs[j].score <= docs[i].score
         IN  docs[m].score

QHRefusedResponse ==
    [raised              |-> FALSE,
     answer              |-> RefusalAnswer,
     retrieved           |-> <<>>,
     similarity_score    |-> 0,
     confidence_score    |-> 0,
     confidence_category |-> "Low"]

\* handle_query after retrieval; generated is the text generator_fn returns
\* (used only when the policy allows generation)
handle_query(query, mode, retrieved, generated) ==
    LET policy == enforce_mode_policy(mode, retrieved)
        citation_val == QH_validate_citations(generated, retrieved)
        conf == QH_calculate_confidence(query, retrieved, generated, citation_val)
    IN  IF ~policy.allowed THEN QHRefusedResponse
        ELSE IF conf.raised THEN [raised |-> TRUE]
        ELSE [raised              |-> FALSE,
              answer              |-> generated,
              retrieved           |-> retrieved,
              similarity_score    |-> MaxScore(retrieved),
              confidence_score    |-> conf.confidence_score,
              confidence_category |-> conf.confidence_category,
              hallucination_risk  |-> IF 10 * citation_val.coverage.num
                                           > 8 * citation_val.coverage.den
                                      THEN "Low" ELSE "Medium",
              metrics             |-> conf.factors]

----------------------------------------------------------------------------
(* The running system: the stores and the request handlers.  A handler     *)
(* runs as one step from the idle state and leaves its inputs (args), the  *)
(* query it sent to the vector store and its result (ret) to be observed;  *)
(* Respond hands the result to the caller and returns to idle.             *)

NoQuery == [store |-> "none"]
NoRet == [none |-> TRUE]

\* the stored chunks the filter of a retrieval lets through
Matching(store, user_id, file_id, mode) ==
    {c \in store[collection_map(mode)] :
        ChromaMatches(WhereFilter(user_id, file_id), c.meta)}

\* the possible distances of the stored records to a query vector
DistsOver(records) == [{r.id : r \in records} -> Distances]

\* an answer that cites the retrieved chunks by their position
AliasAnswer == "X is true [DOC 0, 1]"

\* the texts the language model may return for a prompt
LLMAnswers(prompt) ==
    {RefusalAnswer,
     "The laptop is a Dell XPS13 " \o prompt.example,
     "X holds [1] (2025)",
     "find the answer [Source 3]",
     AliasAnswer}

\* the results retrieval_fn, a search of the vector index, may return to
\* the query handler: nearest first
QHDocA == [id |-> "a", text |-> "alpha", score |-> 8190]
QHDocB == [id |-> "b", text |-> "beta", score |-> 3000]
QHDocC == [id |-> "c", text |-> "gamma", score |-> 3000]
QHResultLists == {<<>>, <<QHDocA, QHDocB>>, <<QHDocC>>}
QHQueries == {"what is X", "find the answer", " "}
QHModes == {"general", "academic", "legal"}
QHAnswers == {"X [DOC a]", "the answer is to find [DOC a] [DOC a] [DOC zz] one two", "X"}

Init ==
    /\ chroma = [name \in CollectionNames |-> {}]
    /\ weaviate = [c \in {} |-> {}]
    /\ index_query = NoQuery
    /\ llm_calls = 0
    /\ op = "idle"
    /\ args = NoRet
    /\ ret = NoRet
    /\ chat_sessions = {}
    /\ chat_messages = {}
    /\ db_clock = 0
    /\ documents_table = {}
    /\ disk_files = {}
    /\ upload_tasks = {}

\* upload: the background task indexes a document under a fresh file id; a
\* document yields no text, or MaxChunks chunks
ProcessDocument ==
    \E file_id \in FileIds, user_id \in Users, n \in {0, MaxChunks} :
        /\ op = "idle"
        /\ \A name \in CollectionNames : \A c \in chroma[name] : c.meta.file_id # file_id
        /\ chroma' = process_document(chroma, file_id, "doc.txt", user_id, UserRole[user_id], n)
        /\ op' = "process_document"
        /\ args' = [file_id |-> file_id, user_id |-> user_id, n |-> n]
        /\ ret' = NoRet
        /\ index_query' = NoQuery
        /\ llm_calls' = 0
        /\ UNCHANGED <<weaviate, chat, uploads>>

\* the owners of the documents of a batch: one owner for all, or two owners
UpsertOwners == {[f \in FileIds |-> "u1"], [f \in FileIds |-> IF f = "f1" THEN "u1" ELSE "u2"]}

\* WeaviateAdapter.upsert of one batch: the first chunk of every document
Upsert ==
    \E owner \in UpsertOwners :
        LET files == CHOOSE q \in [1..Cardinality(FileIds) -> FileIds] : Range(q) = FileIds
        IN  /\ op = "idle"
            /\ weaviate' = WeaviateUpsert(weaviate, "general_docs",
                               [i \in DOMAIN files |-> ChunkId(files[i], 0)],
                               [i \in DOMAIN files |-> "chunk 0"],
                               [i \in DOMAIN files |->
                                  [file_id |-> files[i], user_id |-> owner[files[i]],
                                   chunk_num |-> 0, filename |-> "doc.txt"]])
            /\ op' = "upsert"
            /\ args' = [owner |-> owner]
            /\ ret' = NoRet
            /\ index_query' = NoQuery
            /\ llm_calls' = 0
            /\ UNCHANGED <<chroma, chat, uploads>>

\* retrieve_docs, the wrapper of retrieve_with_scores
RetrieveDocs ==
    \E user_id \in Users, file_id \in FileIds \cup {NoFile}, mode \in Modes, top_k \in TopKs :
    \E fails \in BOOLEAN :
    \E matching \in {Matching(chroma, user_id, file_id, mode)} :
    \E dist \in (IF fails THEN {[id \in {c.id : c \in matching} |-> 0]}
                 ELSE DistsOver(matching)) :
        LET r == retrieve_with_scores(chroma, "find the answer", user_id, file_id, mode,
                                      top_k, dist)
        IN  /\ op = "idle"
            /\ op' = "retrieve_docs"
            /\ args' = [query |-> "find the answer", user_id |-> user_id,
                        file_id |-> file_id, mode |-> mode, top_k |-> top_k,
                        failure |-> IF fails THEN "retrieval" ELSE "none"]
            /\ ret' = IF fails THEN RetrievalFailure ELSE [retrieved |-> r.results]
            /\ index_query' = r.sent
            /\ llm_calls' = 0
            /\ UNCHANGED <<chroma, weaviate, chat, uploads>>

\* answer_query: retrieval with top_k = 6, then either the refusal without
\* generation or one call of the language model and the validation; the
\* vector store or the language model may fail
AnswerQuery ==
    \E query \in Queries, user_id \in Users, file_id \in FileIds \cup {NoFile}, mode \in Modes :
    \E fails \in BOOLEAN :
    \E matching \in {Matching(chroma, user_id, file_id, mode)} :
    \E dist \in (IF fails THEN {[id \in {c.id : c \in matching} |-> 0]}
                 ELSE DistsOver(matching)) :
        LET r == retrieve_with_scores(chroma, query, user_id, file_id, mode, 6, dist)
            base == [query |-> query, user_id |-> user_id, file_id |-> file_id,
                     mode |-> mode]
        IN  /\ op = "idle"
            /\ op' = "answer_query"
            /\ index_query' = r.sent
            /\ UNCHANGED <<chroma, weaviate, chat, uploads>>
            /\ IF fails
               THEN /\ ret' = RetrievalFailure
                    /\ args' = base @@ [llm_text |-> "", failure |-> "retrieval"]
                    /\ llm_calls' = 0
               ELSE IF r.results = <<>>
               THEN /\ ret' = NoDocsResponse
                    /\ args' = base @@ [llm_text |-> "", failure |-> "none"]
                    /\ llm_calls' = 0
               ELSE \E template \in {build_dynamic_prompt(mode, r.results)} :
                    \/ \E llm_text \in LLMAnswers(template) :
                       \E v \in {validate_answer_citations(llm_text, r.results, mode)} :
                       /\ ret' = FinishAnswer(query, r.results, r.scores, llm_text, v)
                       /\ args' = base @@ [llm_text |-> llm_text, failure |-> "none",
                                           persona |-> template.persona]
                       /\ llm_calls' = 1
                    \/ /\ ret' = GenerationFailure
                       /\ args' = base @@ [llm_text |-> "", failure |-> "generation",
                                           persona |-> template.persona]
                       /\ llm_calls' = 1

\* GET /search
SearchDocuments ==
    \E top_k \in TopKs, file_id \in FileIds \cup {NoFile}, user_id \in Users, fails \in BOOLEAN :
    \E dist \in DistsOver(IF "GeneralDocs" \in DOMAIN weaviate
                          THEN weaviate["GeneralDocs"] ELSE {}) :
        LET r == search_documents(weaviate, top_k, "general_docs", file_id, user_id,
                                  dist, fails)
        IN  /\ op = "idle"
            /\ op' = "search_documents"
            /\ args' = [top_k |-> top_k, file_id |-> file_id, user_id |-> user_id,
                        failure |-> IF fails THEN "retrieval" ELSE "none"]
            /\ ret' = [retrieved |-> r.formatted_results]
            /\ index_query' = r.sent
            /\ llm_calls' = 0
            /\ UNCHANGED <<chroma, weaviate, chat, uploads>>

\* the where clauses a caller may hand to WeaviateAdapter.query: one
\* property, a conjunction, a conjunction whose first condition is empty
\* (building the filter raises on it), a conjunction of nothing
AdapterWheres ==
    {Dict1("user_id", "u1"),
     Dict1("$and", <<Dict1("user_id", "u1"), Dict1("file_id", "f1")>>),
     Dict1("$and", <<<<>>, Dict1("file_id", "f1")>>),
     Dict1("$and", <<>>)}

\* WeaviateAdapter.query called with a where clause
WeaviateAdapterQuery ==
    \E where \in AdapterWheres, fails \in BOOLEAN :
    \E dist \in DistsOver(IF "GeneralDocs" \in DOMAIN weaviate
                          THEN weaviate["GeneralDocs"] ELSE {}) :
        LET r == WeaviateQuery(weaviate, "general_docs", 6, where, dist, fails)
        IN  /\ op = "idle"
            /\ op' = "weaviate_query"
            /\ args' = [where |-> where,
                        failure |-> IF fails THEN "retrieval" ELSE "none"]
            /\ ret' = [ids |-> r.ids, documents |-> r.documents,
                       metadatas |-> r.metadatas, distances |-> r.distances]
            /\ index_query' = r.sent
            /\ llm_calls' = 0
            /\ UNCHANGED <<chroma, weaviate, chat, uploads>>

\* handle_query with injected retrieval_fn and generator_fn
HandleQuery ==
    \E query \in QHQueries, mode \in QHModes :
    \E per_query \in [1..QueriesIssued(query, mode) -> QHResultLists] :
        LET retrieved == retrieve_documents(query, mode, 5, per_query)
            allowed == enforce_mode_policy(mode, retrieved).allowed
        IN  /\ op = "idle"
            /\ op' = "handle_query"
            /\ index_query' = NoQuery
            /\ UNCHANGED <<chroma, weaviate, chat, uploads>>
            /\ IF ~allowed
               THEN /\ ret' = handle_query(query, mode, retrieved, "")
                    /\ args' = [query |-> query, mode |-> mode, found |-> retrieved,
                                merged |-> all_results_values(mode, per_query),
                                llm_text |-> ""]
                    /\ llm_calls' = 0
               ELSE \E generated \in QHAnswers :
                    /\ ret' = handle_query(query, mode, retrieved, generated)
                    /\ args' = [query |-> query, mode |-> mode, found |-> retrieved,
                                merged |-> all_results_values(mode, per_query),
                                llm_text |-> generated]
                    /\ llm_calls' = 1

\* the result is handed to the caller
Respond ==
    /\ op # "idle"
    /\ op' = "idle"
    /\ args' = NoRet
    /\ ret' = NoRet
    /\ index_query' = NoQuery
    /\ llm_calls' = 0
    /\ UNCHANGED <<chroma, weaviate, chat, uploads>>

Next ==
    \/ ProcessDocument
    \/ Upsert
    \/ RetrieveDocs
    \/ AnswerQuery
    \/ SearchDocuments
    \/ WeaviateAdapterQuery
    \/ HandleQuery
    \/ Respond

Spec == Init /\ [][Next]_vars

----------------------------------------------------------------------------
(* Citation validation on its own: the inputs are drawn in CiteInit and    *)
(* each action applies one of the functions to them.  An answer is built   *)
(* from fragments whose citations are known by construction: num is the    *)
(* number a fragment cites in the bracket grammar ("" if none), doc is the *)
(* id it cites in the [DOC <id>] grammar ("" if none).                     *)

MaxFrags == 2       \* fragments of a composed answer
MaxCites == 51      \* citations of a long answer

Fragments ==
    {[text |-> "(Source 3)", num |-> "3",    doc |-> ""],
     [text |-> "[Source 3]", num |-> "3",    doc |-> ""],
     [text |-> "[3]",        num |-> "3",    doc |-> ""],
     [text |-> "(3)",        num |-> "3",    doc |-> ""],
     [text |-> "(2025)",     num |-> "2025", doc |-> ""],
     [text |-> "[DOC f1_0]", num |-> "",     doc |-> "f1_0"],
     [text |-> "[DOC 3]",    num |-> "3",    doc |-> "3"],
     [text |-> "[Doc 12]",   num |-> "12",   doc |-> ""],
     [text |-> "word",       num |-> "",     doc |-> ""]}

RefusalPrefix == "I cannot find this. "

Doc(id) == [id |-> id, text |-> "chunk", score |-> 5000]
DocLists == {<<>>, <<Doc("3")>>, <<Doc("Source 3"), Doc("f1_0")>>}
CiteModes == {"general", "academic"}

RECURSIVE JoinTexts(_)
JoinTexts(frags) ==
    IF frags = <<>> THEN "" ELSE Head(frags).text \o " " \o JoinTexts(Tail(frags))

RECURSIVE NonEmpty(_)
NonEmpty(q) ==
    IF q = <<>> THEN <<>>
    ELSE (IF Head(q) = "" THEN <<>> ELSE <<Head(q)>>) \o NonEmpty(Tail(q))

FragSeqs == UNION {[1..n -> Fragments] : n \in 0..MaxFrags}

\* an answer composed of a few fragments
ComposedInput(refusal, frags, docs, mode) ==
    [answer         |-> (IF refusal THEN RefusalPrefix ELSE "") \o JoinTexts(frags),
     retrieved_docs |-> docs,
     mode           |-> mode,
     refusal        |-> refusal,
     cited          |-> NonEmpty([i \in DOMAIN frags |-> frags[i].num]),
     doc_cited      |-> NonEmpty([i \in DOMAIN frags |-> frags[i].doc])]

\* a long answer citing source 3 nv times and source 9 ni times
LongInput(refusal, nv, ni, mode) ==
    [answer         |-> (IF refusal THEN RefusalPrefix ELSE "")
                          \o Repeat("[3] ", nv) \o Repeat("[9] ", ni),
     retrieved_docs |-> <<Doc("3")>>,
     mode           |-> mode,
     refusal        |-> refusal,
     cited          |-> [i \in 1..(nv + ni) |-> IF i <= nv THEN "3" ELSE "9"],
     doc_cited      |-> <<>>]

CiteInputs ==
    {ComposedInput(refusal, frags, docs, mode) :
        refusal \in BOOLEAN, frags \in FragSeqs, docs \in DocLists, mode \in CiteModes}
    \cup
    {LongInput(FALSE, x[1], x[2], x[3]) :
        x \in {y \in (0..MaxCites) \X (0..MaxCites) \X CiteModes :
                  y[1] + y[2] <= MaxCites}}

CiteInit ==
    /\ chroma = [name \in CollectionNames |-> {}]
    /\ weaviate = [c \in {} |-> {}]
    /\ index_query = NoQuery
    /\ llm_calls = 0
    /\ op = "input"
    /\ args \in CiteInputs
    /\ ret = NoRet
    /\ chat_sessions = {}
    /\ chat_messages = {}
    /\ db_clock = 0
    /\ documents_table = {}
    /\ disk_files = {}
    /\ upload_tasks = {}

ValidateCitations ==
    /\ op = "input"
    /\ op' = "validate_citations"
    /\ ret' = validate_citations(args.answer, args.retrieved_docs)
    /\ UNCHANGED <<chroma, weaviate, index_query, llm_calls, args, chat, uploads>>

ValidateAnswerCitations ==
    /\ op = "input"
    /\ op' = "validate_answer_citations"
    /\ ret' = validate_answer_citations(args.answer, args.retrieved_docs, args.mode)
    /\ UNCHANGED <<chroma, weaviate, index_query, llm_calls, args, chat, uploads>>

QHValidateCitations ==
    /\ op = "input"
    /\ op' = "qh_validate_citations"
    /\ ret' = QH_validate_citations(args.answer, args.retrieved_docs)
    /\ UNCHANGED <<chroma, weaviate, index_query, llm_calls, args, chat, uploads>>

CiteNext ==
    \/ ValidateCitations
    \/ ValidateAnswerCitations
    \/ QHValidateCitations

SpecCite == CiteInit /\ [][CiteNext]_vars

----------------------------------------------------------------------------
(* Confidence scoring on its own                                           *)

MaxWords == 500     \* words of the longest answer

ConfQueries == {"Summarize this document", "find the answer", "", " "}
ScoredDocs(scores) == [i \in DOMAIN scores |-> [id |-> ToString(i), text |-> "chunk",
                                                 score |-> scores[i]]]
ConfDocLists == {ScoredDocs(<<>>), ScoredDocs(<<8190>>), ScoredDocs(<<10000, 10000>>),
                 ScoredDocs(<<2000, 2000, 2000>>)}
ConfAnswers ==
    {RefusalAnswer, "the answer is to find [1] one two three four"}
    \cup {Repeat("w ", n) : n \in {0, 100, MaxWords}}
ConfCoverages == {Frac(0, 100), Frac(33, 100), Frac(75, 100), Frac(100, 100)}

ConfInit ==
    /\ chroma = [name \in CollectionNames |-> {}]
    /\ weaviate = [c \in {} |-> {}]
    /\ index_query = NoQuery
    /\ llm_calls = 0
    /\ op = "input"
    /\ args \in [query : ConfQueries, retrieved_docs : ConfDocLists,
                 answer : ConfAnswers, coverage : ConfCoverages]
    /\ ret = NoRet
    /\ chat_sessions = {}
    /\ chat_messages = {}
    /\ db_clock = 0
    /\ documents_table = {}
    /\ disk_files = {}
    /\ upload_tasks = {}

CalculateConfidence ==
    /\ op = "input"
    /\ op' = "calculate_confidence"
    /\ ret' = calculate_confidence(args.query, args.retrieved_docs, args.answer,
                                   [coverage |-> args.coverage])
    /\ UNCHANGED <<chroma, weaviate, index_query, llm_calls, args, chat, uploads>>

QHCalculateConfidence ==
    /\ op = "input"
    /\ op' = "qh_calculate_confidence"
    /\ ret' = QH_calculate_confidence(args.query, args.retrieved_docs, args.answer,
                                      [coverage |-> args.coverage])
    /\ UNCHANGED <<chroma, weaviate, index_query, llm_calls, args, chat, uploads>>

ConfNext ==
    \/ CalculateConfidence
    \/ QHCalculateConfidence

SpecConf == ConfInit /\ [][ConfNext]_vars

----------------------------------------------------------------------------
(* app/core/security.py: message encryption                                *)
(*                                                                         *)
(* A Fernet token is modelled as the token header followed by the          *)
(* plaintext; only encrypt_message produces texts that begin with the      *)
(* header, as only the key holder can produce a token that authenticates.  *)

TokenPrefix == "gAAAAA"

IsToken(c) == Len(c) > Len(TokenPrefix) /\ StartsWith(c, TokenPrefix)

encrypt_message(plain_text) ==
    IF plain_text = "" THEN "" ELSE TokenPrefix \o plain_text

decrypt_message(cipher_text) ==
    IF cipher_text = "" THEN ""
    ELSE IF IsToken(cipher_text)
         THEN SubSeq(cipher_text, Len(TokenPrefix) + 1, Len(cipher_text))
         ELSE cipher_text

----------------------------------------------------------------------------
(* json.dumps / json.loads of a list of retrieved chunk ids                *)

RECURSIVE JsonItems(_)
JsonItems(docs) ==
    IF docs = <<>> THEN ""
    ELSE "\"" \o Head(docs) \o "\"" \o (IF Len(docs) > 1 THEN ", " ELSE "")
         \o JsonItems(Tail(docs))

json_dumps(docs) == "[" \o JsonItems(docs) \o "]"

RetrievedDocLists == {<<>>, <<"f1_0">>}

\* a value of the retrieved_docs column or argument, tagged by its Python
\* type: None, a str or a list
NoDocs == [none |-> TRUE]
Str(text) == [str |-> text]
List(docs) == [list |-> docs]

Truthy(v) == v # NoDocs /\ v # Str("") /\ v # List(<<>>)

\* json.loads raises on a text that is not JSON
json_loads(text) ==
    IF \E d \in RetrievedDocLists : json_dumps(d) = text
    THEN [raised |-> FALSE, value |-> CHOOSE d \in RetrievedDocLists : json_dumps(d) = text]
    ELSE [raised |-> TRUE]

----------------------------------------------------------------------------
(* The chat tables (app/models/chat.py) and the request's SQLAlchemy       *)
(* session.  A database session is [store, view]: store is what has been   *)
(* committed, view is what the session's loaded objects hold, changes not  *)
(* yet committed included.  created_at is the database's now(), which is   *)
(* taken to advance between any two inserts.                               *)

ChatSession(id, user_id, title, created_at) ==
    [id |-> id, user_id |-> user_id, title |-> title, created_at |-> created_at]

ChatMessage(id, session_id, role, content, retrieved_docs, created_at) ==
    [id |-> id, session_id |-> session_id, role |-> role, content |-> content,
     retrieved_docs |-> retrieved_docs, created_at |-> created_at]

\* uuid.uuid4(): an id no other row has
uuid4(clock) == "s" \o ToString(clock)

\* db.commit(): the pending changes of the loaded objects are flushed
Commit(view) == [store |-> view, view |-> view]

\* the rows of a set by created_at, oldest first
RECURSIVE OrderByCreatedAsc(_)
OrderByCreatedAsc(rows) ==
    IF rows = {} THEN <<>>
    ELSE LET first == CHOOSE r \in rows : \A q \in rows : r.created_at <= q.created_at
         IN  <<first>> \o OrderByCreatedAsc(rows \ {first})

Reverse(q) == [i \in DOMAIN q |-> q[Len(q) + 1 - i]]

OrderByCreatedDesc(rows) == Reverse(OrderByCreatedAsc(rows))

NoRow == [none |-> TRUE]        \* None

create_session(s, user_id, title) ==
    LET now == s.view.clock + 1
        session == ChatSession(uuid4(now), user_id, encrypt_message(title), now)
        saved == [s.view EXCEPT !.sessions = @ \cup {session}, !.clock = now]
        shown == [session EXCEPT !.title = decrypt_message(@)]
    IN  [s |-> [store |-> saved,
                view  |-> [saved EXCEPT !.sessions = (@ \ {session}) \cup {shown}]],
         value |-> shown]

get_session(s, session_id, user_id) ==
    LET found == {r \in s.view.sessions : r.id = session_id /\ r.user_id = user_id}
    IN  [s |-> s, value |-> IF found = {} THEN NoRow ELSE CHOOSE r \in found : TRUE]

get_user_sessions(s, user_id) ==
    LET sessions == OrderByCreatedDesc({r \in s.view.sessions : r.user_id = user_id})
        shown == [i \in DOMAIN sessions |->
                     [sessions[i] EXCEPT !.title = decrypt_message(@)]]
    IN  [s |-> [s EXCEPT !.view.sessions =
                    {r \in @ : r.user_id # user_id} \cup Range(shown)],
         value |-> shown]

update_session_title(s, session_id, title) ==
    LET found == {r \in s.view.sessions : r.id = session_id}
    IN  IF found = {} THEN [s |-> s, value |-> NoRow]
        ELSE [s |-> Commit([s.view EXCEPT !.sessions =
                   {IF r.id = session_id THEN [r EXCEPT !.title = encrypt_message(title)]
                    ELSE r : r \in @}]),
              value |-> NoRow]

\* the relationship cascades "all, delete-orphan" to the messages
delete_session(s, session_id) ==
    LET found == {r \in s.view.sessions : r.id = session_id}
    IN  IF found = {} THEN [s |-> s, value |-> FALSE]
        ELSE [s |-> Commit([s.view EXCEPT
                               !.sessions = @ \ found,
                               !.messages = {m \in @ : m.session_id # session_id}]),
              value |-> TRUE]

add_message(s, session_id, role, content, retrieved_docs) ==
    LET now == s.view.clock + 1
        encrypted_retrieved ==
            IF Truthy(retrieved_docs) /\ role = "assistant"
            THEN Str(encrypt_message(json_dumps(retrieved_docs.list)))
            ELSE NoDocs
        msg == ChatMessage(now, session_id, role, encrypt_message(content),
                           encrypted_retrieved, now)
    IN  [s |-> Commit([s.view EXCEPT !.messages = @ \cup {msg}, !.clock = now]),
         value |-> NoRow]

RECURSIVE HistoryLines(_)
HistoryLines(messages) ==
    IF messages = <<>> THEN ""
    ELSE LET msg == Head(messages)
             role_prefix == IF msg.role = "user" THEN "User" ELSE "Assistant"
         IN  role_prefix \o ": " \o decrypt_message(msg.content) \o "\n"
             \o HistoryLines(Tail(messages))

get_chat_history_string_oldest(s, session_id, limit) ==
    LET messages == FirstN(OrderByCreatedAsc(
                        {m \in s.view.messages : m.session_id = session_id}), limit)
    IN  [s |-> s, value |-> HistoryLines(messages)]

get_chat_history_string(s, session_id, limit) ==
    LET messages == Reverse(FirstN(OrderByCreatedDesc(
                        {m \in s.view.messages : m.session_id = session_id}), limit))
    IN  [s |-> s, value |-> HistoryLines(messages)]

\* the decrypted fields are assigned to the loaded rows
ShownMessage(msg) ==
    [msg EXCEPT
        !.content = decrypt_message(@),
        !.retrieved_docs =
            IF ~Truthy(@) \/ "str" \notin DOMAIN @ THEN NoDocs
            ELSE LET parsed == json_loads(decrypt_message(@.str))
                 IN  IF parsed.raised THEN NoDocs ELSE List(parsed.value)]

get_session_messages_committed(s, session_id) ==
    LET messages == OrderByCreatedAsc({m \in s.view.messages : m.session_id = session_id})
        shown == [i \in DOMAIN messages |-> ShownMessage(messages[i])]
    IN  [s |-> Commit([s.view EXCEPT !.messages =
                    {m \in @ : m.session_id # session_id} \cup Range(shown)]),
         value |-> shown]

get_session_messages(s, session_id) ==
    LET messages == OrderByCreatedAsc({m \in s.view.messages : m.session_id = session_id})
        shown == [i \in DOMAIN messages |-> ShownMessage(messages[i])]
    IN  [s |-> [s EXCEPT !.view.messages =
                    {m \in @ : m.session_id # session_id} \cup Range(shown)],
         value |-> shown]

----------------------------------------------------------------------------
(* app/api/rag.py: the chat endpoints.  An endpoint takes the committed    *)
(* tables and yields the tables after the request and the HTTP response.   *)

\* Depends(get_db), SessionLocal(): a session on the committed tables
OpenSession(tables) == [store |-> tables, view |-> tables]

\* the end of the request scope: the session is closed, what was not
\* committed is dropped
CloseSession(s) == s.store

HTTPException(status_code, detail) == [status_code |-> status_code, detail |-> detail]

get_user_chat_history(tables, current_user) ==
    LET r == get_user_sessions(OpenSession(tables), current_user)
        sessions == r.value
        clean_history == [i \in DOMAIN sessions |->
            [id |-> sessions[i].id,
             title |-> IF sessions[i].title # "" THEN decrypt_message(sessions[i].title)
                       ELSE sessions[i].title,
             created_at |-> sessions[i].created_at]]
    IN  [store |-> CloseSession(r.s),
         response |-> [status_code |-> 200, body |-> clean_history]]

api_get_session_messages(tables, session_id, current_user) ==
    LET g == get_session(OpenSession(tables), session_id, current_user)
        r == get_session_messages(g.s, session_id)
        msgs == r.value
    IN  IF g.value = NoRow
        THEN [store |-> CloseSession(g.s),
              response |-> HTTPException(404, "Session not found")]
        ELSE [store |-> CloseSession(r.s),
              response |-> [status_code |-> 200,
                            body |-> [i \in DOMAIN msgs |->
                                [role |-> msgs[i].role, content |-> msgs[i].content,
                                 created_at |-> msgs[i].created_at,
                                 retrieved_docs |-> msgs[i].retrieved_docs]]]]

\* variant: answer_query takes the chat history
AnswerQueryParametersWithHistory == {"query", "user_id", "file_id", "mode", "chat_history"}

\* the parameters of rag_service.answer_query and the keywords the endpoint
\* passes to it
AnswerQueryParameters == {"query", "user_id", "file_id", "mode"}
AnswerQueryKeywords == {"query", "user_id", "file_id", "mode", "chat_history"}

\* session_id "" is the request without session_id; result is what
\* answer_query returns when the call is made
get_rag_answer(tables, session_id, current_user, query, result) ==
    LET s0 == OpenSession(tables)
        known == session_id # "" /\ get_session(s0, session_id, current_user).value # NoRow
        is_new_session == ~known
        c == create_session(s0, current_user, "New Chat")
        s1 == IF is_new_session THEN c.s ELSE s0
        sid == IF is_new_session THEN c.value.id ELSE session_id
        chat_history_str == get_chat_history_string(s1, sid, 6).value
        s2 == add_message(s1, sid, "user", query, NoDocs).s
        s3 == add_message(s2, sid, "assistant", result.answer, List(result.retrieved)).s
    IN  IF ~(AnswerQueryKeywords \subseteq AnswerQueryParameters)
        THEN [store |-> CloseSession(s1),
              response |-> HTTPException(500, "RAG Error: answer_query() got an unexpected keyword argument 'chat_history'"),
              title_task |-> FALSE]
        ELSE IF "raised" \in DOMAIN result
        THEN [store |-> CloseSession(s1),
              response |-> HTTPException(500, "RAG Error: "),
              title_task |-> FALSE]
        ELSE [store |-> CloseSession(s3),
              response |-> [status_code |-> 200,
                            body |-> [answer |-> result.answer,
                                      retrieved |-> result.retrieved,
                                      session_id |-> sid]],
              title_task |-> is_new_session]

update_chat_session_title(tables, session_id, title, current_user) ==
    LET g == get_session(OpenSession(tables), session_id, current_user)
        new_title == Strip(title)
        encrypted_title == encrypt_message(new_title)
        u == update_session_title(g.s, session_id, encrypted_title)
    IN  IF g.value = NoRow
        THEN [store |-> CloseSession(g.s),
              response |-> HTTPException(404, "Session not found")]
        ELSE IF new_title = ""
        THEN [store |-> CloseSession(g.s),
              response |-> HTTPException(400, "Title cannot be empty")]
        ELSE [store |-> CloseSession(u.s),
              response |-> [status_code |-> 200,
                            body |-> [message |-> "Title updated successfully",
                                      title |-> new_title]]]

delete_chat_session(tables, session_id, current_user) ==
    LET g == get_session(OpenSession(tables), session_id, current_user)
        d == delete_session(g.s, session_id)
    IN  IF g.value = NoRow
        THEN [store |-> CloseSession(g.s),
              response |-> HTTPException(404, "Session not found")]
        ELSE [store |-> CloseSession(d.s),
              response |-> [status_code |-> 200,
                            body |-> [message |-> "Chat session deleted successfully"]]]

----------------------------------------------------------------------------
(* The chat store as a system: the service functions and the endpoints     *)
(* run against the tables, one request at a time.                          *)

MaxRows == 3    \* rows inserted into the two tables over a run

NoSession == "s0"               \* an id no session has
NewTitles == {"New Chat"}
RenameTitles == {" Budget ", " "}
SmartTitles == {"Plan"}
Contents == {"hi"}
Limits == {1, 6}

Tables == [sessions |-> chat_sessions, messages |-> chat_messages, clock |-> db_clock]

SessionArgs == {r.id : r \in chat_sessions} \cup {NoSession}

Owns(user, session_id) ==
    \E r \in chat_sessions : r.id = session_id /\ r.user_id = user

ChatInit ==
    /\ chroma = [name \in CollectionNames |-> {}]
    /\ weaviate = [c \in {} |-> {}]
    /\ index_query = NoQuery
    /\ llm_calls = 0
    /\ op = "idle"
    /\ args = NoRet
    /\ ret = NoRet
    /\ chat_sessions = {}
    /\ chat_messages = {}
    /\ db_clock = 0
    /\ documents_table = {}
    /\ disk_files = {}
    /\ upload_tasks = {}

\* what a chat operation leaves behind: the tables after the session is closed
Stored(tables) ==
    /\ chat_sessions' = tables.sessions
    /\ chat_messages' = tables.messages
    /\ db_clock' = tables.clock
    /\ UNCHANGED <<chroma, weaviate, index_query, llm_calls, uploads>>

CreateSession ==
    \E caller \in Users, title \in NewTitles :
        LET r == create_session(OpenSession(Tables), caller, title)
        IN  /\ op = "idle" /\ db_clock < MaxRows
            /\ op' = "create_session"
            /\ args' = [caller |-> caller, title |-> title]
            /\ ret' = [value |-> r.value]
            /\ Stored(CloseSession(r.s))

GetSession ==
    \E caller \in Users, session_id \in SessionArgs :
        LET r == get_session(OpenSession(Tables), session_id, caller)
        IN  /\ op = "idle"
            /\ op' = "get_session"
            /\ args' = [caller |-> caller, session_id |-> session_id,
                        owned |-> Owns(caller, session_id)]
            /\ ret' = [value |-> r.value]
            /\ Stored(CloseSession(r.s))

GetUserSessions ==
    \E caller \in Users :
        LET r == get_user_sessions(OpenSession(Tables), caller)
        IN  /\ op = "idle"
            /\ op' = "get_user_sessions"
            /\ args' = [caller |-> caller]
            /\ ret' = [value |-> r.value]
            /\ Stored(CloseSession(r.s))

\* update_session_title as the title task calls it, in a session of its own
UpdateSessionTitle ==
    \E caller \in Users, session_id \in SessionArgs, title \in SmartTitles :
        LET r == update_session_title(OpenSession(Tables), session_id, title)
        IN  /\ op = "idle"
            /\ op' = "update_session_title"
            /\ args' = [caller |-> caller, session_id |-> session_id, title |-> title,
                        owned |-> Owns(caller, session_id)]
            /\ ret' = [value |-> r.value]
            /\ Stored(CloseSession(r.s))

DeleteSession ==
    \E caller \in Users, session_id \in SessionArgs :
        LET r == delete_session(OpenSession(Tables), session_id)
        IN  /\ op = "idle"
            /\ op' = "delete_session"
            /\ args' = [caller |-> caller, session_id |-> session_id,
                        owned |-> Owns(caller, session_id)]
            /\ ret' = [value |-> r.value]
            /\ Stored(CloseSession(r.s))

\* the foreign key lets a message be added to an existing session only
AddMessage ==
    \E caller \in Users, session_id \in SessionArgs \ {NoSession}, content \in Contents :
    \E role \in {"user", "assistant"} :
        LET docs == IF role = "user" THEN <<>> ELSE <<"f1_0">>
            r == add_message(OpenSession(Tables), session_id, role, content, List(docs))
        IN  /\ op = "idle" /\ db_clock < MaxRows
            /\ op' = "add_message"
            /\ args' = [caller |-> caller, session_id |-> session_id, role |-> role,
                        content |-> content, retrieved_docs |-> docs,
                        owned |-> Owns(caller, session_id)]
            /\ ret' = [value |-> r.value]
            /\ Stored(CloseSession(r.s))

GetChatHistoryString ==
    \E caller \in Users, session_id \in SessionArgs, limit \in Limits :
        LET r == get_chat_history_string(OpenSession(Tables), session_id, limit)
        IN  /\ op = "idle"
            /\ op' = "get_chat_history_string"
            /\ args' = [caller |-> caller, session_id |-> session_id, limit |-> limit,
                        owned |-> Owns(caller, session_id)]
            /\ ret' = [value |-> r.value]
            /\ Stored(CloseSession(r.s))

GetSessionMessages ==
    \E caller \in Users, session_id \in SessionArgs :
        LET r == get_session_messages(OpenSession(Tables), session_id)
        IN  /\ op = "idle"
            /\ op' = "get_session_messages"
            /\ args' = [caller |-> caller, session_id |-> session_id,
                        owned |-> Owns(caller, session_id)]
            /\ ret' = [value |-> r.value]
            /\ Stored(CloseSession(r.s))

\* GET /history
GetUserChatHistory ==
    \E caller \in Users :
        LET r == get_user_chat_history(Tables, caller)
        IN  /\ op = "idle"
            /\ op' = "GET /history"
            /\ args' = [caller |-> caller]
            /\ ret' = r.response
            /\ Stored(r.store)

\* GET /history/{session_id}
ApiGetSessionMessages ==
    \E caller \in Users, session_id \in SessionArgs :
        LET r == api_get_session_messages(Tables, session_id, caller)
        IN  /\ op = "idle"
            /\ op' = "GET /history/{session_id}"
            /\ args' = [caller |-> caller, session_id |-> session_id,
                        owned |-> Owns(caller, session_id)]
            /\ ret' = r.response
            /\ Stored(r.store)

\* POST /answer
GetRagAnswer ==
    \E caller \in Users, session_id \in SessionArgs \cup {""} :
    \E result \in {[raised |-> TRUE], [answer |-> "ok", retrieved |-> <<"f1_0">>]} :
        LET r == get_rag_answer(Tables, session_id, caller, "hi", result)
        IN  /\ op = "idle" /\ db_clock < MaxRows
            /\ op' = "POST /answer"
            /\ args' = [caller |-> caller, session_id |-> session_id,
                        owned |-> Owns(caller, session_id)]
            /\ ret' = r.response
            /\ Stored(r.store)

\* PATCH /history/{session_id}/title
UpdateChatSessionTitle ==
    \E caller \in Users, session_id \in SessionArgs, title \in RenameTitles :
        LET r == update_chat_session_title(Tables, session_id, title, caller)
        IN  /\ op = "idle"
            /\ op' = "PATCH /history/{session_id}/title"
            /\ args' = [caller |-> caller, session_id |-> session_id, title |-> title,
                        owned |-> Owns(caller, session_id)]
            /\ ret' = r.response
            /\ Stored(r.store)

\* DELETE /history/{session_id}
DeleteChatSession ==
    \E caller \in Users, session_id \in SessionArgs :
        LET r == delete_chat_session(Tables, session_id, caller)
        IN  /\ op = "idle"
            /\ op' = "DELETE /history/{session_id}"
            /\ args' = [caller |-> caller, session_id |-> session_id,
                        owned |-> Owns(caller, session_id)]
            /\ ret' = r.response
            /\ Stored(r.store)

ChatRespond ==
    /\ op # "idle"
    /\ op' = "idle"
    /\ args' = NoRet
    /\ ret' = NoRet
    /\ UNCHANGED <<chroma, weaviate, index_query, llm_calls, chat, uploads>>

ChatNext ==
    \/ CreateSession
    \/ GetSession
    \/ GetUserSessions
    \/ UpdateSessionTitle
    \/ DeleteSession
    \/ AddMessage
    \/ GetChatHistoryString
    \/ GetSessionMessages
    \/ GetUserChatHistory
    \/ ApiGetSessionMessages
    \/ GetRagAnswer
    \/ UpdateChatSessionTitle
    \/ DeleteChatSession
    \/ ChatRespond

SpecChat == ChatInit /\ [][ChatNext]_vars

----------------------------------------------------------------------------
(* app/services/chunking.py: chunk_text.  Positions are Python's, counted  *)
(* from 0; a negative position of a slice counts from the end of the text. *)

\* s[a:b]
PySlice(s, a, b) ==
    LET lo == IF a < 0 THEN Max(a + Len(s), 0) ELSE Min(a, Len(s))
        hi == IF b < 0 THEN Max(b + Len(s), 0) ELSE Min(b, Len(s))
    IN  IF hi <= lo THEN "" ELSE SubSeq(s, lo + 1, hi)

\* s.rfind(' '): the position of the last space, -1 if there is none
RFindSpace(s) ==
    IF \E i \in 1..Len(s) : At(s, i) = " "
    THEN (CHOOSE i \in 1..Len(s) :
             At(s, i) = " " /\ \A k \in (i + 1)..Len(s) : At(s, k) # " ") - 1
    ELSE -1

\* re.sub(r'\s+', ' ', text): every run of whitespace becomes one space
RECURSIVE CollapseFrom(_, _)
CollapseFrom(s, i) ==
    IF i > Len(s) THEN ""
    ELSE IF IsSpace(At(s, i)) THEN " " \o CollapseFrom(s, SkipSpaces(s, i))
    ELSE LET e == SkipWord(s, i) IN SubSeq(s, i, e - 1) \o CollapseFrom(s, e)

CleanText(text) == Strip(CollapseFrom(text, 1))

\* the state of the while loop: the start position, the chunks appended so
\* far, and what the last iteration did (split: "none" before the first
\* iteration, "rest", "hard" or "space"; from and cut_point: the start
\* position and the cut point of that iteration)
LoopState(clean_text, start, chunks, split, from, cut_point) ==
    [clean_text |-> clean_text, start |-> start, chunks |-> chunks,
     split |-> split, from |-> from, cut_point |-> cut_point, returned |-> split = "rest"]

\* chunk_text up to the loop: the early returns, or the state the loop is
\* entered with
chunk_text_begin(text, chunk_size) ==
    LET clean_text == CleanText(text)
    IN  IF text = "" THEN [returned |-> TRUE, chunks |-> <<>>]
        ELSE IF Len(clean_text) <= chunk_size
        THEN [returned |-> TRUE, chunks |-> <<clean_text>>]
        ELSE LoopState(clean_text, 0, <<>>, "none", 0, 0)

\* one iteration of the while loop; "if start <= start" compares the
\* variable with itself
chunk_text_iteration(l, chunk_size, overlap) ==
    LET clean_text == l.clean_text
        start == l.start
        text_len == Len(clean_text)
        end == start + chunk_size
        segment == PySlice(clean_text, start, end)
        last_space_relative == RFindSpace(segment)
        cut_point == start + last_space_relative
        moved == Max(start + 1, cut_point - overlap)
    IN  IF end >= text_len
        THEN LoopState(clean_text, start,
                       Append(l.chunks, PySlice(clean_text, start, text_len)),
                       "rest", start, 0)
        ELSE IF last_space_relative = -1
        THEN LoopState(clean_text, start + (chunk_size - overlap),
                       Append(l.chunks, PySlice(clean_text, start, end)),
                       "hard", start, end)
        ELSE LoopState(clean_text,
                       IF moved <= moved THEN cut_point + 1 ELSE moved,
                       Append(l.chunks, PySlice(clean_text, start, cut_point)),
                       "space", start, cut_point)

----------------------------------------------------------------------------
(* chunk_text as a process: the call, then one step per iteration of its   *)
(* loop.  args holds the parameters of the call, ret the locals of the     *)
(* loop and, once the function has returned, the list of chunks.           *)

MaxPieces == 16     \* chunks observed in the list of a call that is still looping

ChunkTexts ==
    {"", " ", "ab cd ef", "abcdefg", "ab  cd\nefgh i", "abcd efghijkl", "a b c d e"}
ChunkSizes == {1, 2, 4}
Overlaps == {0, 1, 2, 5}

ChunkInit ==
    /\ chroma = [name \in CollectionNames |-> {}]
    /\ weaviate = [c \in {} |-> {}]
    /\ index_query = NoQuery
    /\ llm_calls = 0
    /\ op = "input"
    /\ args \in [text : ChunkTexts, chunk_size : ChunkSizes, overlap : Overlaps]
    /\ ret = NoRet
    /\ chat_sessions = {}
    /\ chat_messages = {}
    /\ db_clock = 0
    /\ documents_table = {}
    /\ disk_files = {}
    /\ upload_tasks = {}

ChunkTextBegin ==
    /\ op = "input"
    /\ ret' = chunk_text_begin(args.text, args.chunk_size)
    /\ op' = IF ret'.returned THEN "chunked" ELSE "chunking"
    /\ UNCHANGED <<chroma, weaviate, index_query, llm_calls, args, chat, uploads>>

\* one iteration; the loop is left by the break of the "rest" iteration
\* only, as no iteration moves start to the end of the text or past it
ChunkTextIteration ==
    /\ op = "chunking"
    /\ ret.start < Len(ret.clean_text)
    /\ Len(ret.chunks) < MaxPieces
    /\ ret' = chunk_text_iteration(ret, args.chunk_size, args.overlap)
    /\ op' = IF ret'.returned THEN "chunked" ELSE "chunking"
    /\ UNCHANGED <<chroma, weaviate, index_query, llm_calls, args, chat, uploads>>

ChunkNext ==
    \/ ChunkTextBegin
    \/ ChunkTextIteration

\* a call that is not blocked goes on running
SpecChunk == ChunkInit /\ [][ChunkNext]_vars /\ WF_vars(ChunkNext)

----------------------------------------------------------------------------
(* app/services/document_service.py and app/api/upload.py: the document    *)
(* records, the files on disk and the upload and delete endpoints          *)

Document(file_id, filename, file_path, content_hash, user_id) ==
    [file_id |-> file_id, filename |-> filename, file_path |-> file_path,
     content_hash |-> content_hash, user_id |-> user_id]

create_document_record(table, doc_data) == table \cup {doc_data}

get_existing_document(table, user_id, content_hash) ==
    {d \in table : d.user_id = user_id /\ d.content_hash = content_hash}

\* remove_fails: os.remove raises; the transaction is rolled back and the
\* exception is raised again
hard_delete_document(table, files, file_id, user_id, remove_fails) ==
    LET found == {d \in table : d.file_id = file_id}
        doc == CHOOSE d \in found : TRUE
    IN  IF found = {} THEN [table |-> table, files |-> files, value |-> FALSE]
        ELSE IF doc.user_id # user_id
        THEN [table |-> table, files |-> files, value |-> FALSE]
        ELSE IF doc.file_path \in files /\ remove_fails
        THEN [table |-> table, files |-> files, raised |-> TRUE]
        ELSE [table |-> table \ {doc}, files |-> files \ {doc.file_path},
              value |-> TRUE]

\* os.path.join(get_user_files_dir(email), f"{file_uuid}{ext}")
FinalPath(user_email, file_uuid, ext) ==
    "data/users/" \o user_email \o "/documents/" \o file_uuid \o ext

\* POST /file: file_uuid is the uuid4 drawn for a new file; scheduled is the
\* background task the request adds
upload_document(table, files, current_user, user_role, filename, content_hash, file_uuid) ==
    LET existing == get_existing_document(table, current_user, content_hash)
        existing_doc == CHOOSE d \in existing : TRUE
        final_path == FinalPath(current_user, file_uuid, ".txt")
    IN  IF existing # {}
        THEN [table |-> table, files |-> files, scheduled |-> {},
              response |-> [status |-> "exists", file_id |-> existing_doc.file_id]]
        ELSE [table |-> create_document_record(table,
                            Document(file_uuid, filename, final_path, content_hash,
                                     current_user)),
              files |-> files \cup {final_path},
              scheduled |-> {[saved_path |-> final_path, file_id |-> file_uuid,
                              filename |-> filename, user_id |-> current_user,
                              user_role |-> user_role]},
              response |-> [status |-> "uploaded", file_id |-> file_uuid]]

\* DELETE /file/{file_id}
delete_user_document(table, files, file_id, current_user, remove_fails) ==
    LET r == hard_delete_document(table, files, file_id, current_user, remove_fails)
    IN  [table |-> r.table, files |-> r.files,
         response |-> IF "raised" \in DOMAIN r
                      THEN HTTPException(500, "Failed to delete document: ")
                      ELSE IF ~r.value
                      THEN HTTPException(404, "Document not found or you do not have permission to delete it.")
                      ELSE [status |-> "deleted", file_id |-> file_id]]

----------------------------------------------------------------------------
(* The documents as a system: uploads, the background indexing they        *)
(* schedule, deletions and retrievals.  upload_tasks keeps every task an   *)
(* upload has scheduled, with done set once it has run.                    *)

ContentHashes == {"h1", "h2"}

\* the file ids issued so far; uuid4 draws an id that was never issued
Issued == {t.task.file_id : t \in upload_tasks}

DocsInit ==
    /\ chroma = [name \in CollectionNames |-> {}]
    /\ weaviate = [c \in {} |-> {}]
    /\ index_query = NoQuery
    /\ llm_calls = 0
    /\ op = "idle"
    /\ args = NoRet
    /\ ret = NoRet
    /\ chat_sessions = {}
    /\ chat_messages = {}
    /\ db_clock = 0
    /\ documents_table = {}
    /\ disk_files = {}
    /\ upload_tasks = {}

UploadDocument ==
    \E current_user \in Users, content_hash \in ContentHashes, file_uuid \in FileIds \ Issued :
        LET r == upload_document(documents_table, disk_files, current_user,
                                 UserRole[current_user], "doc.txt", content_hash, file_uuid)
        IN  /\ op = "idle"
            /\ op' = "upload_document"
            /\ args' = [current_user |-> current_user, content_hash |-> content_hash]
            /\ ret' = r.response
            /\ documents_table' = r.table
            /\ disk_files' = r.files
            /\ upload_tasks' = upload_tasks \cup {[task |-> t, done |-> FALSE] : t \in r.scheduled}
            /\ index_query' = NoQuery
            /\ llm_calls' = 0
            /\ UNCHANGED <<chroma, weaviate, chat>>

\* the background task of an upload: process_document on the saved file;
\* reading a file that is no longer on disk raises, which the function logs
ProcessDocumentTask ==
    \E t \in upload_tasks, n \in 0..MaxChunks :
        /\ op = "idle"
        /\ ~t.done
        /\ op' = "process_document"
        /\ args' = [file_id |-> t.task.file_id, user_id |-> t.task.user_id, n |-> n]
        /\ ret' = NoRet
        /\ chroma' = IF t.task.saved_path \in disk_files
                     THEN process_document(chroma, t.task.file_id, t.task.filename,
                                           t.task.user_id, t.task.user_role, n)
                     ELSE chroma
        /\ upload_tasks' = (upload_tasks \ {t}) \cup {[t EXCEPT !.done = TRUE]}
        /\ index_query' = NoQuery
        /\ llm_calls' = 0
        /\ UNCHANGED <<weaviate, chat, documents_table, disk_files>>

DeleteUserDocument ==
    \E current_user \in Users, file_id \in FileIds, remove_fails \in BOOLEAN :
        LET r == delete_user_document(documents_table, disk_files, file_id, current_user,
                                      remove_fails)
        IN  /\ op = "idle"
            /\ op' = "delete_user_document"
            /\ args' = [current_user |-> current_user, file_id |-> file_id]
            /\ ret' = r.response
            /\ documents_table' = r.table
            /\ disk_files' = r.files
            /\ index_query' = NoQuery
            /\ llm_calls' = 0
            /\ UNCHANGED <<chroma, weaviate, chat, upload_tasks>>

DocsNext ==
    \/ UploadDocument
    \/ ProcessDocumentTask
    \/ DeleteUserDocument
    \/ RetrieveDocs
    \/ SearchDocuments
    \/ Respond

SpecDocs == DocsInit /\ [][DocsNext]_vars

----------------------------------------------------------------------------
(* Properties of the running system (Spec)                                 *)

\* the equality predicates <<field, value>> of the filter a handler sent
SentPredicates(q) ==
    IF q.store = "chroma"
    THEN LET conds == IF HasKey(q.where, "$and") THEN Get(q.where, "$and") ELSE <<q.where>>
         IN  UNION {{<<conds[i][j].key, conds[i][j].value>> : j \in DOMAIN conds[i]} :
                       i \in DOMAIN conds}
    ELSE {<<q.where[i].prop, q.where[i].val>> : i \in DOMAIN q.where}

\* the metadata of a returned chunk
ChunkMeta(chunk) == IF op = "search_documents" THEN chunk.metadata ELSE chunk.meta

RetrievalOps == {"retrieve_docs", "answer_query", "search_documents"}

\* the stored chunks a retrieval of the pending answer_query could return
Retrievable ==
    {c \in chroma[collection_map(args.mode)] :
        /\ c.meta.user_id = args.user_id
        /\ args.file_id # NoFile => c.meta.file_id = args.file_id}

\* the policy's decision on the text the language model returned
Rejected ==
    /\ op = "answer_query"
    /\ llm_calls = 1
    /\ args.failure = "none"
    /\ ~validate_answer_citations(args.llm_text, ret.retrieved, args.mode).is_valid

\* C1: every retrieval sends a filter that holds the equality on the
\* requesting owner's id, and the equality on the file id when one is
\* supplied; every returned chunk belongs to that owner and, when scoped,
\* to that file.
C1_OwnerScopedRetrieval ==
    op \in RetrievalOps =>
        /\ <<"user_id", args.user_id>> \in SentPredicates(index_query)
        /\ args.file_id # NoFile => <<"file_id", args.file_id>> \in SentPredicates(index_query)
        /\ "retrieved" \in DOMAIN ret =>
              \A i \in DOMAIN ret.retrieved :
                  /\ ChunkMeta(ret.retrieved[i]).user_id = args.user_id
                  /\ args.file_id # NoFile =>
                        ChunkMeta(ret.retrieved[i]).file_id = args.file_id

\* a file-scoped retrieval returns a chunk while the queried collection
\* also holds a chunk of another owner
C1_Witness ==
    /\ op = "retrieve_docs"
    /\ args.failure = "none"
    /\ args.file_id # NoFile
    /\ ret.retrieved # <<>>
    /\ \E c \in chroma[index_query.collection] : c.meta.user_id # args.user_id

\* C2: when the policy rejects the generated text, answer_query returns the
\* canonical refusal string, never the generated text, and reports
\* coverage 0.
C2_RejectionReturnsRefusal ==
    Rejected =>
        /\ ret.answer = RefusalAnswer
        /\ ret.answer # args.llm_text
        /\ ret.metrics.citation_validation.coverage = 0

\* a generated text with citations, none of them valid, was rejected
C2_Witness ==
    /\ Rejected
    /\ args.llm_text = "find the answer [Source 3]"
    /\ ret.metrics.citation_validation.total_citations = 1

\* C4: a rejected answer is returned with confidence_score 0 and category
\* Low.
C4_RejectionZeroConfidence ==
    Rejected =>
        /\ ret.metrics.confidence_score = 0
        /\ ret.metrics.confidence_category = "Low"

\* C5: when retrieval finds no chunk the answering call returns the
\* canonical refusal with retrieved = [], confidence 0 and category Low, and
\* the language model is invoked only after a non-empty retrieval.
C5_NoDocumentsNoGeneration ==
    /\ op = "answer_query" /\ args.failure = "none" /\ Retrievable = {} =>
          /\ ret.answer = RefusalAnswer
          /\ ret.retrieved = <<>>
          /\ ret.metrics.confidence_score = 0
          /\ ret.metrics.confidence_category = "Low"
          /\ llm_calls = 0
    /\ op = "answer_query" /\ llm_calls > 0 =>
          /\ Retrievable # {}
          /\ args.failure = "none" => ret.retrieved # <<>>
    /\ op = "handle_query" /\ args.found = <<>> =>
          /\ ret.raised = FALSE
          /\ ret.answer = RefusalAnswer
          /\ ret.retrieved = <<>>
          /\ ret.confidence_score = 0
          /\ ret.confidence_category = "Low"
          /\ llm_calls = 0
    /\ op = "handle_query" /\ llm_calls > 0 => args.found # <<>>

\* a query in an allowed mode found nothing although the collection it
\* searched holds chunks of another owner
C5_Witness ==
    /\ op = "answer_query"
    /\ args.failure = "none"
    /\ Retrievable = {}
    /\ chroma[collection_map(args.mode)] # {}
    /\ ret.answer = RefusalAnswer

\* C6: a generated text whose only citation is the one the prompt shows,
\* [DOC <id>] with the id of a retrieved chunk, is counted as cited and
\* valid with coverage 1.0 and is returned as the answer.
C6_PromptCitationAccepted ==
    /\ op = "answer_query"
    /\ llm_calls = 1
    /\ args.failure = "none"
    /\ args.llm_text = "The laptop is a Dell XPS13 " \o PromptCitation(ret.retrieved[1].id)
    => /\ ret.metrics.citation_validation.total_citations >= 1
       /\ ret.metrics.citation_validation.valid_citations
             = ret.metrics.citation_validation.total_citations
       /\ ret.metrics.citation_validation.coverage = 100
       /\ ret.answer = args.llm_text

\* C17: when the vector store fails during a retrieval, the retrieval
\* returns an empty chunk list instead of raising, and answer_query returns
\* the no-documents refusal instead of an error.
C17_BackendFailureIsEmptyRetrieval ==
    (op \in RetrievalOps /\ args.failure = "retrieval") =>
        /\ "retrieved" \in DOMAIN ret
        /\ ret.retrieved = <<>>
        /\ op = "answer_query" => ret = NoDocsResponse

\* C18: when the call of the language model fails, answer_query ends with
\* one error, raised by the one call it made, and returns no response and
\* so no answer.
C18_GenerationFailureIsOneError ==
    (op = "answer_query" /\ args.failure = "generation") =>
        /\ llm_calls = 1
        /\ "raised" \in DOMAIN ret
        /\ ret.raised
        /\ "answer" \notin DOMAIN ret

\* the language model failed on a prompt built from retrieved chunks
C18_Witness ==
    /\ op = "answer_query"
    /\ args.failure = "generation"
    /\ Retrievable # {}
    /\ llm_calls = 1

\* the keys of collection_map and of the prompt templates
KnownModes == {"legal", "healthcare", "academic", "finance", "business", "general"}

\* C19: every mode key selects a collection and a persona, a key that is
\* not a known mode selects general_docs and the general persona, and no
\* request is refused because of its mode: whenever chunks were retrieved the
\* language model is called.
C19_ModeNeverBlocks ==
    /\ (op = "answer_query" /\ args.failure = "none") =>
          /\ index_query.collection \in CollectionNames
          /\ args.mode \notin KnownModes => index_query.collection = "general_docs"
          /\ Retrievable # {} => llm_calls = 1
          /\ (llm_calls = 1 /\ args.mode \notin KnownModes) =>
                args.persona = "a helpful assistant"
    /\ (op = "handle_query" /\ args.found # <<>>) => llm_calls = 1

\* distances across the range of the cosine distance, 1.0 included
SampleDistances == {0, 5000, 9999, 10000, 10001, 20000}

InUnitInterval(docs) == \A i \in DOMAIN docs : docs[i].score \in 0..10000

NonIncreasing(docs) ==
    \A i, j \in DOMAIN docs : i < j => docs[i].score >= docs[j].score

PositionIn(docs, id) == CHOOSE i \in DOMAIN docs : docs[i].id = id

\* C20: every returned chunk has a score in [0,1], the score does not
\* increase with the distance, and every returned list is in non-increasing
\* score order, chunks of equal score in the order they were found.
C20_ScoresRankTheChunks ==
    /\ \A d1, d2 \in SampleDistances :
          d1 <= d2 => /\ SimScore(d1) >= SimScore(d2)
                      /\ SearchScore(d1) >= SearchScore(d2)
                      /\ SimScore(d1) \in 0..10000
                      /\ SearchScore(d1) \in 0..10000
    /\ (op \in RetrievalOps /\ "retrieved" \in DOMAIN ret) =>
          /\ InUnitInterval(ret.retrieved)
          /\ NonIncreasing(ret.retrieved)
    /\ op = "handle_query" =>
          /\ InUnitInterval(args.found)
          /\ NonIncreasing(args.found)
          /\ \A i, j \in DOMAIN args.found :
                (i < j /\ args.found[i].score = args.found[j].score) =>
                    PositionIn(args.merged, args.found[i].id)
                        < PositionIn(args.merged, args.found[j].id)

\* the merged results of an academic query were reordered by the sort and
\* two of them have the same score
C20_Witness ==
    /\ op = "handle_query"
    /\ args.mode = "academic"
    /\ args.found # args.merged
    /\ \E i, j \in DOMAIN args.found :
          i < j /\ args.found[i].score = args.found[j].score

\* C21: alias resolution rewrites every citation tag [DOC n1, n2, ...] of
\* the raw answer into one tag [DOC <real-id>] per integer, through the
\* request's alias map from the ordinal position of a retrieved chunk to its
\* id: with two retrieved chunks the answer "X is true [DOC 0, 1]" is
\* returned as "X is true [DOC <id of chunk 0>] [DOC <id of chunk 1>]" and
\* its two citations are valid.
C21_AliasesResolved ==
    (/\ op = "answer_query"
     /\ args.failure = "none"
     /\ args.llm_text = AliasAnswer
     /\ Len(ret.retrieved) = 2)
    => /\ ret.answer = "X is true " \o PromptCitation(ret.retrieved[1].id)
                        \o " " \o PromptCitation(ret.retrieved[2].id)
       /\ ret.metrics.citation_validation.valid_citations = 2

\* C25: WeaviateAdapter.query never runs the nearest-neighbour search
\* without a filter when the caller passed a non-empty where clause: if no
\* filter could be built from it, no search results are returned.
C25_NeverSearchesUnfiltered ==
    (op = "weaviate_query" /\ args.where # <<>>)
    => (index_query.where # <<>> \/ ret.ids = <<>>)

----------------------------------------------------------------------------
(* Properties of citation validation (SpecCite)                            *)

\* the ids of the retrieved chunks of the pending validation
RetrievedIds == {args.retrieved_docs[i].id : i \in DOMAIN args.retrieved_docs}

\* the positions of the cited numbers that name a retrieved chunk
ValidCited ==
    {i \in DOMAIN args.cited :
        {args.cited[i], "Source " \o args.cited[i], "Doc " \o args.cited[i]}
            \cap RetrievedIds # {}}

\* the positions of the [DOC <id>] citations that name a retrieved chunk
ValidDocCited == {i \in DOMAIN args.doc_cited : args.doc_cited[i] \in RetrievedIds}

\* C3: validate_answer_citations accepts exactly when (a) the answer starts
\* with a refusal phrase and has no valid citation, or (b) the mode is
\* academic, there are citations and valid/total >= 0.75, or (c) the mode
\* is not academic, there are citations and at least one is valid.
C3_AcceptedExactlyWhen ==
    op = "validate_answer_citations" =>
        LET valid == ret.citation_val.valid_citations
            total == ret.citation_val.total_citations
        IN  ret.is_valid <=>
              \/ args.refusal /\ valid = 0
              \/ args.mode = "academic" /\ total > 0 /\ 4 * valid >= 3 * total
              \/ args.mode # "academic" /\ total > 0 /\ valid >= 1

\* C7 as stated: total_citations counts every citation of the answer,
\* valid_citations those that name a retrieved chunk, coverage is exactly
\* valid/total (0 when total is 0), 0 <= valid <= total and coverage is in
\* [0,1].
C7_CoverageIsExactRatio ==
    /\ op = "validate_citations" =>
          /\ ret.total_citations = Len(args.cited)
          /\ ret.valid_citations = Cardinality(ValidCited)
          /\ 0 <= ret.valid_citations /\ ret.valid_citations <= ret.total_citations
          /\ ret.coverage * ret.total_citations = 100 * ret.valid_citations
          /\ ret.total_citations = 0 => ret.coverage = 0
          /\ 0 <= ret.coverage /\ ret.coverage <= 100
    /\ op = "qh_validate_citations" =>
          /\ ret.total_citations = Len(args.doc_cited)
          /\ ret.valid_citations = Cardinality(ValidDocCited)
          /\ 0 <= ret.valid_citations /\ ret.valid_citations <= ret.total_citations
          /\ ret.coverage.num * ret.total_citations
                = ret.valid_citations * ret.coverage.den
          /\ ret.total_citations = 0 => ret.coverage.num = 0
          /\ 0 <= ret.coverage.num /\ ret.coverage.num <= ret.coverage.den

\* C7, amended: the citation enforcer counts every citation of the answer
\* and those that name a retrieved chunk, and reports valid/total rounded
\* to two decimals (at most half a hundredth away from the ratio); the
\* query handler counts the distinct cited ids and those among the
\* retrieved chunks, and reports their exact ratio.  In both, 0 <= valid <=
\* total, coverage is 0 when total is 0, and coverage is in [0,1].
C7_CoverageIsRoundedRatio ==
    /\ op = "validate_citations" =>
          LET off == 100 * ret.valid_citations - ret.coverage * ret.total_citations
          IN  /\ ret.total_citations = Len(args.cited)
              /\ ret.valid_citations = Cardinality(ValidCited)
              /\ 0 <= ret.valid_citations /\ ret.valid_citations <= ret.total_citations
              /\ 2 * off <= ret.total_citations /\ -2 * off <= ret.total_citations
              /\ ret.total_citations = 0 => ret.coverage = 0
              /\ 0 <= ret.coverage /\ ret.coverage <= 100
    /\ op = "qh_validate_citations" =>
          LET distinct == {args.doc_cited[i] : i \in DOMAIN args.doc_cited}
          IN  /\ ret.total_citations = Cardinality(distinct)
              /\ ret.valid_citations = Cardinality(distinct \cap RetrievedIds)
              /\ 0 <= ret.valid_citations /\ ret.valid_citations <= ret.total_citations
              /\ ret.coverage.num * ret.total_citations
                    = ret.valid_citations * ret.coverage.den
              /\ ret.total_citations = 0 => ret.coverage.num = 0
              /\ 0 <= ret.coverage.num /\ ret.coverage.num <= ret.coverage.den

\* one valid citation out of three: the ratio 1/3 is reported as 0.33
C7_Witness ==
    /\ op = "validate_citations"
    /\ ret.total_citations = 3
    /\ ret.valid_citations = 1
    /\ ret.coverage = 33

\* C8: only bracketed or parenthesised numbers of 1 to 3 digits are counted
\* as citations; a 4-digit token such as (2025) is not.
C8_FourDigitsNotCited ==
    op = "validate_citations" =>
        /\ ret.total_citations
              = Cardinality({i \in DOMAIN args.cited : Len(args.cited[i]) <= 3})
        /\ "[Source 2025]" \notin ret.invalid_citations

----------------------------------------------------------------------------
(* Properties of confidence scoring (SpecConf)                             *)

C10_CategoryMatchesScore ==
    op \in {"calculate_confidence", "qh_calculate_confidence"} /\ "confidence_score" \in DOMAIN ret =>
        /\ ret.confidence_category = "High" <=> ret.confidence_score >= 750
        /\ ret.confidence_category = "Medium" <=>
              ret.confidence_score >= 500 /\ ret.confidence_score < 750
        /\ ret.confidence_category = "Low" <=> ret.confidence_score < 500

\* the four factors as functions of the pending inputs alone: mean
\* similarity x 100, coverage x 100, share of the query's distinct tokens
\* found in the answer x 100, words / 500 x 100 capped at 100
MeanSimilarity100 ==
    IF args.retrieved_docs = <<>> THEN Frac(0, 1)
    ELSE Frac(100 * SumSeq([i \in DOMAIN args.retrieved_docs |->
                               args.retrieved_docs[i].score]),
              10000 * Len(args.retrieved_docs))

Coverage100 == Frac(100 * args.coverage.num, args.coverage.den)

TermCoverage100 ==
    IF Terms(args.query) = {} THEN Frac(0, 1)
    ELSE Frac(100 * Cardinality(Terms(args.query) \cap Terms(args.answer)),
              Cardinality(Terms(args.query)))

Depth500 == FracMin(Frac(100 * Len(Split(args.answer)), 500), Frac(100, 1))

Depth100 == FracMin(Frac(100 * Len(Split(args.answer)), 100), Frac(100, 1))

\* C11: each factor is in [0,100] and is, for every query: retrieval = mean
\* similarity x 100, citation = coverage x 100, query coverage = share of
\* the query's tokens found in the answer x 100 (0 without tokens), depth =
\* min(words / 500 x 100, 100); the score is their 0.3/0.3/0.2/0.2 sum.
C11_FactorsAsSpecified ==
    op \in {"calculate_confidence", "qh_calculate_confidence"} =>
        /\ "factors" \in DOMAIN ret
        /\ LET f == ret.factors
               names == IF op = "calculate_confidence"
                        THEN <<"retrieval_quality", "citation_coverage",
                               "query_coverage", "answer_depth">>
                        ELSE <<"retrieval", "citations", "query_coverage", "depth">>
           IN  /\ \A i \in 1..4 : 0 <= f[names[i]] /\ f[names[i]] <= 1000
               /\ f[names[1]] = Round1(MeanSimilarity100)
               /\ f[names[2]] = Round1(Coverage100)
               /\ f[names[3]] = Round1(TermCoverage100)
               /\ f[names[4]] = Round1(Depth500)
               /\ ret.confidence_score
                     = Round1(WeightedSum(MeanSimilarity100, Coverage100,
                                          TermCoverage100, Depth500))

\* C12: with summarization vocabulary in the query and at least one chunk
\* the retrieval factor is at least 90 whatever the similarities, and the
\* depth factor is words / 100 x 100 capped at 100; without such vocabulary
\* the retrieval factor is the mean similarity x 100; without chunks it is
\* 0 for every query.
C12_SummarizationFactors ==
    op = "calculate_confidence" =>
        /\ IsSummarization(args.query) /\ args.retrieved_docs # <<>> =>
              /\ FracLeq(Frac(90, 1), RetrievalScore(args.query, args.retrieved_docs))
              /\ ret.factors.retrieval_quality >= 900
        /\ IsSummarization(args.query) =>
              /\ DepthScore(args.query, args.answer) = Depth100
              /\ ret.factors.answer_depth = Round1(Depth100)
        /\ ~IsSummarization(args.query) =>
              /\ RetrievalScore(args.query, args.retrieved_docs) = MeanSimilarity100
              /\ ret.factors.retrieval_quality = Round1(MeanSimilarity100)
        /\ args.retrieved_docs = <<>> =>
              /\ RetrievalScore(args.query, args.retrieved_docs) = Frac(0, 1)
              /\ ret.factors.retrieval_quality = 0

\* "Summarize this document" over three chunks of similarity 0.2
C12_Witness ==
    /\ op = "calculate_confidence"
    /\ args.query = "Summarize this document"
    /\ Len(args.retrieved_docs) = 3
    /\ MeanSimilarity100 = Frac(20, 1)
    /\ ret.factors.retrieval_quality = 1000

----------------------------------------------------------------------------
(* Properties of the chat store (SpecChat)                                 *)

\* the operations that name a session
SessionOps ==
    {"get_session", "update_session_title", "delete_session", "add_message",
     "get_chat_history_string", "get_session_messages", "GET /history/{session_id}",
     "POST /answer", "PATCH /history/{session_id}/title", "DELETE /history/{session_id}"}

\* the operation told its caller that there is no such session
NotFound(o, r) ==
    CASE "status_code" \in DOMAIN r -> r.status_code = 404
      [] o \in {"get_session", "update_session_title", "add_message"} -> r.value = NoRow
      [] o = "delete_session" -> r.value = FALSE
      [] o = "get_chat_history_string" -> r.value = ""
      [] OTHER -> r.value = <<>>

\* C13: an operation on a session takes effect only for the session's owner:
\* when the caller names a session that does not exist or that another user
\* owns, the caller gets "not found" and no row of the two tables is read,
\* changed or deleted.
C13_OwnerOnly ==
    [][(op' \in SessionOps /\ args'.session_id # "" /\ ~args'.owned)
          => (NotFound(op', ret') /\ UNCHANGED chat)]_vars

\* the messages of a session that fewer than limit messages of it are newer than
RecentMessages(session_id, limit) ==
    LET mine == {m \in chat_messages : m.session_id = session_id}
    IN  {m \in mine : Cardinality({p \in mine : p.created_at > m.created_at}) < limit}

\* the content that was appended as message m
Appended(m) == CHOOSE x \in Contents : encrypt_message(x) = m.content

RECURSIVE RenderedTurns(_)
RenderedTurns(turns) ==
    IF turns = {} THEN ""
    ELSE LET oldest == CHOOSE m \in turns : \A p \in turns : m.created_at <= p.created_at
         IN  (IF oldest.role = "user" THEN "User: " ELSE "Assistant: ")
             \o Appended(oldest) \o "\n" \o RenderedTurns(turns \ {oldest})

DeleteOps == {"delete_session", "DELETE /history/{session_id}"}

\* C15: messages are append-only: a stored message keeps its session_id,
\* role, content and retrieved_docs through every operation, the listing that
\* decrypts the loaded rows included, and a message leaves the table only
\* when its session is deleted, together with all messages of that session.
C15_MessagesAppendOnly ==
    [][\A m \in chat_messages :
          \/ m \in chat_messages'
          \/ /\ op' \in DeleteOps
             /\ args'.session_id = m.session_id
             /\ \A r \in chat_sessions' : r.id # m.session_id
             /\ \A p \in chat_messages' : p.session_id # m.session_id]_vars

C15_Witness ==
    /\ op = "GET /history/{session_id}"
    /\ ret.status_code = 200
    /\ \E i \in DOMAIN ret.body : \E m \in chat_messages :
          /\ m.created_at = ret.body[i].created_at
          /\ ret.body[i].content = "hi"
          /\ m.content = encrypt_message("hi")
          /\ ret.body[i].retrieved_docs = List(<<"f1_0">>)
          /\ m.retrieved_docs = Str(encrypt_message(json_dumps(<<"f1_0">>)))

\* the titles and contents the write paths are given
WrittenTexts ==
    NewTitles \cup {Strip(t) : t \in RenameTitles} \cup SmartTitles \cup Contents

\* the text x whose writing left the stored value
Written(stored) ==
    CHOOSE x \in WrittenTexts :
        stored \in {x, encrypt_message(x), encrypt_message(encrypt_message(x))}

StoredTitle(session_id) == (CHOOSE r \in chat_sessions : r.id = session_id).title

StoredContent(created_at) ==
    (CHOOSE m \in chat_messages : m.created_at = created_at).content

\* C16: what a write path was given is what the read path returns: every
\* title of a session listing and every content of a message listing is the
\* text that was written, whether create_session, the rename endpoint, the
\* title task or add_message wrote it.
C16_ReadsBackWhatWasWritten ==
    /\ op = "get_user_sessions" =>
          \A i \in DOMAIN ret.value :
              ret.value[i].title = Written(StoredTitle(ret.value[i].id))
    /\ (op = "GET /history" /\ ret.status_code = 200) =>
          \A i \in DOMAIN ret.body :
              ret.body[i].title = Written(StoredTitle(ret.body[i].id))
    /\ op = "get_session_messages" =>
          \A i \in DOMAIN ret.value :
              ret.value[i].content = Written(StoredContent(ret.value[i].created_at))
    /\ (op = "GET /history/{session_id}" /\ ret.status_code = 200) =>
          \A i \in DOMAIN ret.body :
              ret.body[i].content = Written(StoredContent(ret.body[i].created_at))

C29_FailedAnswerLeavesNoTrace ==
    [][(op' = "POST /answer" /\ ret'.status_code # 200)
       => UNCHANGED <<chat_sessions, chat_messages>>]_vars

\* C30: an answering request that names a session which does not exist or
\* belongs to another user runs in a freshly created session owned by the
\* caller and returns that session's id; the named session and its messages
\* are unchanged.
C30_ForeignSessionRunsInNewSession ==
    [][(op' = "POST /answer" /\ args'.session_id # "" /\ ~args'.owned)
       => /\ ret'.status_code = 200
          /\ \E r \in chat_sessions' \ chat_sessions :
                r.id = ret'.body.session_id /\ r.user_id = args'.caller
          /\ {r \in chat_sessions' : r.id = args'.session_id}
               = {r \in chat_sessions : r.id = args'.session_id}
          /\ {m \in chat_messages' : m.session_id = args'.session_id}
               = {m \in chat_messages : m.session_id = args'.session_id}]_vars

----------------------------------------------------------------------------
(* Properties of chunk_text (SpecChunk)                                    *)

\* C23: chunk_text terminates for every text and every chunk_size > 0 and
\* overlap >= 0, overlap >= chunk_size and words longer than chunk_size
\* included, and every chunk it returns is non-empty and at most chunk_size
\* characters long.
C23_TerminatesWithBoundedChunks ==
    /\ <>(op = "chunked")
    /\ [](op = "chunked" =>
            \A i \in DOMAIN ret.chunks :
                ret.chunks[i] # "" /\ Len(ret.chunks[i]) <= args.chunk_size)

\* C24: when chunk_text splits at a space, the next chunk starts overlap
\* characters before the cut point of the current chunk, at
\* max(start + 1, cut_point - overlap).
C24_OverlapAfterSpaceSplit ==
    (op = "chunking" /\ ret.split = "space")
    => ret.start = Max(ret.from + 1, ret.cut_point - args.overlap)

----------------------------------------------------------------------------
(* Properties of the documents (SpecDocs)                                  *)

\* the documents whose hard delete has succeeded: a row is inserted before
\* the task of its upload is scheduled and removed by hard_delete_document
\* only
HardDeleted == Issued \ {d.file_id : d \in documents_table}

\* C28: after a document has been hard-deleted by its owner, no retrieval
\* and no search by any user returns a chunk whose file_id is that
\* document's id.
C28_DeletedNotRetrievable ==
    (op \in {"retrieve_docs", "search_documents"} /\ "retrieved" \in DOMAIN ret)
    => \A i \in DOMAIN ret.retrieved :
          ChunkMeta(ret.retrieved[i]).file_id \notin HardDeleted

====
